---- MODULE Spec2Model ----
(***************************************************************************)
(* Model of the categorical diffusion-and-correction engine:               *)
(*   - the simplex codec, class Probabilities (src/src/utils.py),          *)
(*   - the inverse-gradient corrector, InverseGradient.run                 *)
(*     (src/scripts/inverse_gradient.py).                                  *)
(*                                                                         *)
(* Numbers.  A floating-point number is modelled by an exact rational      *)
(* <<n, d>> in lowest terms with d > 0, and the IEEE not-a-number by       *)
(* NaN == <<0, 0>>; rounding is not modelled.  An integer index is a TLA+  *)
(* integer.  A logit l is represented by its odds e^l, a positive          *)
(* rational, so that sigmoid and log-odds stay exact.                      *)
(*                                                                         *)
(* Arrays.  A numpy array / torch tensor is a record                       *)
(*   [kind, shape, data]: kind is "values" (integers), "real" (numbers) or *)
(* "logits" (odds); shape is the tuple of dimensions; data is the tuple of *)
(* rows when the array is 2-dimensional and <<>> otherwise (every          *)
(* operation checks the shape before it reads an entry).                   *)
(*                                                                         *)
(* Results.  A call either returns, [ok |-> TRUE, val |-> array], or       *)
(* raises, [ok |-> FALSE, err |-> the exception's name].                   *)
(***************************************************************************)
EXTENDS Integers, Sequences, FiniteSets

VARIABLES
    structure,  \* Probabilities.structure (in run: n_values)
    arg,        \* the array a codec operation is called with
    extra,      \* the call's other inputs: the random draw and k, or epsilon
    op,         \* the codec operation called, "init" before the call
    res,        \* what the call returned or raised
    model,      \* InverseGradient.model: "None" or "loaded"
    pc,         \* where the corrector is: "new", "idle", "loop", "returned", "raised"
    run_x,      \* run's argument x
    eta,        \* run's argument eta
    n_iter,     \* run's argument n_iter
    threshold,  \* run's argument threshold
    run_p,      \* run's local p, the point
    run_i,      \* run's local i
    loss_value, \* run's local loss_value (nan while unbound)
    module,     \* run's local module (nan while unbound)
    visits,     \* the classifier's answers so far: the points it was called on,
                \* in order, each with the loss and the gradient it gave
    outcome,    \* the return statement or exception that ended run
    weights,    \* the value of the classifier's parameters (0: no classifier)
    weight_grad \* the .grad of the classifier's parameters, which backward adds to

VARIABLES
    sched,      \* the noise scheduler: its fields once constructed
    dpc,        \* where the diffusion engine is: "new", "ready", ...
    call,       \* the scheduler method called last, with its inputs and result
    gen         \* the generation run in progress: its step index, its state
                \* and what its last reverse step computed

VARIABLES
    heap,           \* the tensor storages: storage id -> the number stored
    cur_params,     \* current model: the storage id of each parameter's data
    ema_params,     \* shadow model: the storage id of each parameter's data
    ema_beta,       \* EMA.beta
    ema_step,       \* EMA.step
    step_start_ema, \* the step_start_ema the training loop passes to step_ema
    ema_last,       \* the last operation, with the values it found
    ema_copies      \* how many calls of step_ema took the warm-up branch

VARIABLES
    file_exists,    \* whether the model file is on disk
    handles,        \* the model attribute of each of the three loaders' objects
    load_last       \* the last operation on a loader and how it ended

VARIABLES
    labels,         \* SumCategoricalDataset.dataset['indices']: rows of label values
    mask_threshold, \* SumCategoricalDataset.threshold
    mask_call       \* the mask operation called last, with its inputs and result

VARIABLES
    ac,             \* the AnomalyCorrection object: its models and its noise
    ac_call         \* the call of correct_anomaly, with what it did

VARIABLES
    ds,             \* a dataset object: its kind and its dataset attribute
    ds_call         \* the dataset method called last and how it ended

codecvars == <<arg, extra, op, res>>

acvars == <<ac, ac_call>>

dsvars == <<ds, ds_call>>

igvars ==
    <<model, pc, run_x, eta, n_iter, threshold, run_p, run_i, loss_value, module,
      visits, outcome, weights, weight_grad>>

ddpmvars == <<sched, dpc, call, gen>>

maskvars == <<labels, mask_threshold, mask_call>>

loadvars == <<file_exists, handles, load_last>>

emavars ==
    <<heap, cur_params, ema_params, ema_beta, ema_step, step_start_ema, ema_last,
      ema_copies>>

\* the state of the components other than the codec and the corrector
restvars == <<ddpmvars, emavars, loadvars, maskvars, acvars, dsvars>>

\* the state outside the diffusion engine
notddpm == <<structure, codecvars, igvars, emavars, loadvars, maskvars, acvars, dsvars>>

\* the state outside the parameter averager
notema == <<structure, codecvars, igvars, ddpmvars, loadvars, maskvars, acvars, dsvars>>

\* the state outside the model loaders
notload == <<structure, codecvars, igvars, ddpmvars, emavars, maskvars, acvars, dsvars>>

\* the state outside the mask operations
notmask == <<structure, codecvars, igvars, ddpmvars, emavars, loadvars, acvars, dsvars>>

\* the state outside the correction orchestrator
notac == <<structure, codecvars, igvars, ddpmvars, emavars, loadvars, maskvars, dsvars>>

\* the state outside the dataset objects
notds == <<structure, codecvars, igvars, ddpmvars, emavars, loadvars, maskvars, acvars>>

vars == <<structure, codecvars, igvars, restvars>>

(***************************************************************************)
(* Exact arithmetic with NaN                                               *)
(***************************************************************************)
RECURSIVE GCD(_, _)
GCD(a, b) == IF b = 0 THEN a ELSE GCD(b, a % b)

Abs(n) == IF n < 0 THEN -n ELSE n

NaN == <<0, 0>>

IsNaN(a) == a[2] = 0

Rat(n, d) ==
    IF d = 0 THEN NaN
    ELSE LET g == GCD(Abs(n), Abs(d))
             s == IF d < 0 THEN -1 ELSE 1
         IN  <<(s * n) \div g, Abs(d) \div g>>

Zero == Rat(0, 1)

One == Rat(1, 1)

RAdd(a, b) ==
    IF IsNaN(a) \/ IsNaN(b) THEN NaN
    ELSE LET g == GCD(a[2], b[2])
         IN  Rat(a[1] * (b[2] \div g) + b[1] * (a[2] \div g), (a[2] \div g) * b[2])

RNeg(a) == <<-a[1], a[2]>>

\* a * b, the common factors taken out before the products are made
RMul(a, b) ==
    IF IsNaN(a) \/ IsNaN(b) THEN NaN
    ELSE LET g == GCD(Abs(a[1]), b[2])
             h == GCD(Abs(b[1]), a[2])
         IN  Rat((a[1] \div g) * (b[1] \div h), (a[2] \div h) * (b[2] \div g))

\* a / b; a division by zero gives nan, which here also stands for the
\* infinities
RDiv(a, b) ==
    IF IsNaN(a) \/ IsNaN(b) \/ b[1] = 0 THEN NaN
    ELSE RMul(a, IF b[1] < 0 THEN <<-b[2], -b[1]>> ELSE <<b[2], b[1]>>)

\* a < b; every comparison with nan is false
RLess(a, b) ==
    /\ ~IsNaN(a)
    /\ ~IsNaN(b)
    /\ LET g == GCD(a[2], b[2])
       IN  a[1] * (b[2] \div g) < b[1] * (a[2] \div g)

RECURSIVE RSum(_)
RSum(s) == IF s = <<>> THEN Zero ELSE RAdd(Head(s), RSum(Tail(s)))

RECURSIVE Sum(_)
Sum(s) == IF s = <<>> THEN 0 ELSE Head(s) + Sum(Tail(s))

\* sum(s[:i]) for a 0-based i
SumUpTo(s, i) == Sum(SubSeq(s, 1, i))

(***************************************************************************)
(* Arrays and results                                                      *)
(***************************************************************************)
Arr(kind, shape, data) == [kind |-> kind, shape |-> shape, data |-> data]

NoArr == Arr("none", <<>>, <<>>)

Ok(a) == [ok |-> TRUE, err |-> "", val |-> a]

Raise(e) == [ok |-> FALSE, err |-> e, val |-> NoArr]

NoResult == [ok |-> FALSE, err |-> "not called", val |-> NoArr]

\* a scheduler that has not been constructed
NoSchedule == [kind |-> "none"]

\* no scheduler method has been called
NoCall == [name |-> "none"]

\* no generation run has been started
NoGen == [mode |-> "none"]

\* the diffusion engine is not in use
NoDiffusion ==
    /\ sched = NoSchedule
    /\ dpc = "unused"
    /\ call = NoCall
    /\ gen = NoGen

\* no parameter averager has been made
NoEMA ==
    /\ heap = <<>>
    /\ cur_params = <<>>
    /\ ema_params = <<>>
    /\ ema_beta = NaN
    /\ ema_step = 0
    /\ step_start_ema = 0
    /\ ema_last = [op |-> "none"]
    /\ ema_copies = 0

\* the components other than the codec and the corrector are not in use
\* no model loader has been made
NoLoader ==
    /\ file_exists = FALSE
    /\ handles = <<>>
    /\ load_last = [op |-> "none"]

\* no dataset to mask has been made
NoMasks ==
    /\ labels = <<>>
    /\ mask_threshold = 0
    /\ mask_call = [op |-> "none"]

\* no call of correct_anomaly has been made
NoAcCall == [name |-> "none"]

\* no AnomalyCorrection object has been made
NoOrchestrator ==
    /\ ac = [made |-> FALSE]
    /\ ac_call = NoAcCall

\* no dataset method has been called
NoDsCall == [name |-> "none"]

\* no dataset object has been made
NoDatasets ==
    /\ ds = [kind |-> "none"]
    /\ ds_call = NoDsCall

NoRest ==
    NoDiffusion /\ NoEMA /\ NoLoader /\ NoMasks /\ NoOrchestrator /\ NoDatasets

(***************************************************************************)
(* class Probabilities                                                     *)
(***************************************************************************)
\* self.length = sum(structure)
Length(st) == Sum(st)

\* start of feature i's block (i is 1-based, the offset 0-based)
Start(st, i) == SumUpTo(st, i - 1)

\* the block-indicator matrix, mat[r][c] for 0-based r and c
set_mat(st) ==
    [r \in 0 .. Length(st) - 1 |->
        [c \in 0 .. Length(st) - 1 |->
            IF \E i \in 1 .. Len(st) : \E j \in 0 .. st[i] - 1 :
                   /\ Start(st, i) <= r /\ r < Start(st, i) + j + 1
                   /\ Start(st, i) <= c /\ c < Start(st, i) + st[i]
            THEN One ELSE Zero]]

\* the absolute value in place of the cap at 0
maximum0_abs(a) == IF IsNaN(a) THEN NaN ELSE IF a[1] < 0 THEN <<-a[1], a[2]>> ELSE a

\* np.maximum(0, a): nan propagates
maximum0(a) == IF IsNaN(a) THEN NaN ELSE IF a[1] < 0 THEN Zero ELSE a

\* np.dot(p, mat) of a matrix p (tuple of rows) with the square matrix mat
dot(p, mat) ==
    [r \in 1 .. Len(p) |->
        [c \in 1 .. Len(p[r]) |->
            RSum([k \in 1 .. Len(p[r]) |-> RMul(p[r][k], mat[k - 1][c - 1])])]]

\* the assertion of normalize weakened to s >= 0
AllNonNegative(s) ==
    \A r \in 1 .. Len(s) : \A c \in 1 .. Len(s[r]) : ~RLess(s[r][c], Zero)

\* np.all(s > 0)
AllPositive(s) ==
    \A r \in 1 .. Len(s) : \A c \in 1 .. Len(s[r]) : RLess(Zero, s[r][c])

\* normalize without its clamp
clamp_none(p) == [r \in 1 .. p.shape[1] |-> p.data[r]]

\* p = np.maximum(0, p)
clamp(p) ==
    [r \in 1 .. p.shape[1] |-> [c \in 1 .. p.shape[2] |-> maximum0(p.data[r][c])]]

\* assert np.all(s > 0); return p / s
divide(shape, p, s) ==
    IF ~AllPositive(s) THEN Raise("AssertionError")
    ELSE Ok(Arr("real", shape,
                [r \in 1 .. Len(p) |-> [c \in 1 .. Len(p[r]) |-> RDiv(p[r][c], s[r][c])]]))

\* s = np.dot(p, self.mat), then the assertion and the division
DivideByBlockSums(st, shape, p) == divide(shape, p, dot(p, set_mat(st)))

normalize(st, p) ==
    IF Len(p.shape) # 2 THEN Raise("AssertionError")
    ELSE IF p.shape[2] # Length(st) THEN Raise("AssertionError")
    ELSE DivideByBlockSums(st, p.shape, clamp(p))

\* np.max(x, axis=0)[c] for a matrix with at least one row
ColMax(x, c) ==
    CHOOSE m \in {x.data[r][c] : r \in 1 .. x.shape[1]} :
        \A r \in 1 .. x.shape[1] : x.data[r][c] <= m

\* the loop of to_onehot without its "start += self.structure[i]"
onehot_rows_no_start(st, x) ==
    Arr("real", <<x.shape[1], Length(st)>>,
        [r \in 1 .. x.shape[1] |->
            [k \in 1 .. Length(st) |->
                IF \E i \in 1 .. Len(st) : x.data[r][i] = k - 1 THEN One ELSE Zero]])

\* x1 = np.zeros(...); for each feature i: x1[np.arange(rows), x[:, i] + start] = 1
onehot_rows(st, x) ==
    Arr("real", <<x.shape[1], Length(st)>>,
        [r \in 1 .. x.shape[1] |->
            [k \in 1 .. Length(st) |->
                IF \E i \in 1 .. Len(st) : x.data[r][i] + Start(st, i) = k - 1
                THEN One ELSE Zero]])

to_onehot(st, x) ==
    IF Len(x.shape) # 2 THEN Raise("AssertionError")
    ELSE IF x.shape[2] # Len(st) THEN Raise("AssertionError")
    ELSE IF x.shape[1] = 0 THEN Raise("ValueError")
    ELSE IF ~(\A c \in 1 .. Len(st) : ColMax(x, c) < st[c])
         THEN Raise("AssertionError")
    ELSE IF ~(\A r \in 1 .. x.shape[1] : \A c \in 1 .. Len(st) : x.data[r][c] >= 0)
         THEN Raise("AssertionError")
    ELSE Ok(onehot_rows(st, x))

\* np.argmax taken as the last position of the maximum
argmax_last(s) ==
    (CHOOSE j \in 1 .. Len(s) :
        /\ \A k \in 1 .. Len(s) : ~RLess(s[j], s[k])
        /\ \A k \in j + 1 .. Len(s) : RLess(s[k], s[j])) - 1

\* np.argmax of a non-empty tuple: the first position of the maximum, 0-based;
\* a nan counts as the maximum
argmax(s) ==
    LET IsMax(j) == IF \E k \in 1 .. Len(s) : IsNaN(s[k]) THEN IsNaN(s[j])
                    ELSE \A k \in 1 .. Len(s) : ~RLess(s[j], s[k])
    IN  (CHOOSE j \in 1 .. Len(s) : IsMax(j) /\ \A k \in 1 .. j - 1 : ~IsMax(k)) - 1

\* x[r, start:start + structure[i]]
Block(st, row, i) == SubSeq(row, Start(st, i) + 1, Start(st, i) + st[i])

\* onehot_to_values with its width assertion weakened to >=
onehot_to_values_wide(st, x) ==
    IF Len(x.shape) # 2 THEN Raise("AssertionError")
    ELSE IF x.shape[2] < Length(st) THEN Raise("AssertionError")
    ELSE Ok(Arr("values", <<x.shape[1], Len(st)>>,
                [r \in 1 .. x.shape[1] |->
                    [i \in 1 .. Len(st) |-> argmax(Block(st, x.data[r], i))]]))

onehot_to_values(st, x) ==
    IF Len(x.shape) # 2 THEN Raise("AssertionError")
    ELSE IF x.shape[2] # Length(st) THEN Raise("AssertionError")
    ELSE Ok(Arr("values", <<x.shape[1], Len(st)>>,
                [r \in 1 .. x.shape[1] |->
                    [i \in 1 .. Len(st) |-> argmax(Block(st, x.data[r], i))]]))

prob_to_onehot(st, p) ==
    IF Len(p.shape) # 2 THEN Raise("AssertionError")
    ELSE IF p.shape[2] # Length(st) THEN Raise("AssertionError")
    ELSE to_onehot(st, Arr("values", <<p.shape[1], Len(st)>>,
                           [r \in 1 .. p.shape[1] |->
                               [i \in 1 .. Len(st) |-> argmax(Block(st, p.data[r], i))]]))

\* p + np.random.random(p.shape) * k, the draw of the random matrix given as u
add_noise(st, p, u, k) ==
    IF Len(p.shape) # 2 THEN Raise("AssertionError")
    ELSE IF p.shape[2] # Length(st) THEN Raise("AssertionError")
    ELSE normalize(st, Arr("real", p.shape,
                           [r \in 1 .. p.shape[1] |->
                              [c \in 1 .. p.shape[2] |->
                                  RAdd(p.data[r][c], RMul(u[r][c], k))]]))

\* 1 / (1 + np.exp(l)), the sigmoid with the sign of the logit lost
sigmoid_of_minus(o) == RDiv(One, RAdd(One, o))

\* 1 / (1 + np.exp(-l)) of the logit with odds o = e^l
sigmoid(o) == RDiv(One, RAdd(One, RDiv(One, o)))

logits_to_normalized_probs(st, logits) ==
    normalize(st, Arr("real", logits.shape,
                      [r \in 1 .. Len(logits.data) |->
                         [c \in 1 .. Len(logits.data[r]) |-> sigmoid(logits.data[r][c])]]))

\* onehot_to_values(prob_to_onehot(p)), an exception of the inner call propagating
decode(st, p) ==
    IF ~prob_to_onehot(st, p).ok THEN prob_to_onehot(st, p)
    ELSE onehot_to_values(st, prob_to_onehot(st, p).val)

prob_to_values(st, p) ==
    IF ~normalize(st, p).ok THEN normalize(st, p) ELSE decode(st, normalize(st, p).val)

logits_to_proba(st, logits) == logits_to_normalized_probs(st, logits)

logits_to_values(st, logits) ==
    IF ~logits_to_normalized_probs(st, logits).ok
    THEN logits_to_normalized_probs(st, logits)
    ELSE decode(st, logits_to_normalized_probs(st, logits).val)

\* np.log((p + epsilon) / (1 - p + epsilon)) of a one-hot matrix, kept as the odds
log_odds(p, epsilon) ==
    Arr("logits", p.shape,
        [r \in 1 .. p.shape[1] |->
            [c \in 1 .. p.shape[2] |->
                RDiv(RAdd(p.data[r][c], epsilon),
                     RAdd(RAdd(One, RNeg(p.data[r][c])), epsilon))]])

values_to_logits(st, values, epsilon) ==
    IF ~to_onehot(st, values).ok THEN to_onehot(st, values)
    ELSE Ok(log_odds(to_onehot(st, values).val, epsilon))

\* p is a matrix of probabilities: no entry is negative and every feature
\* block of every row sums to 1
IsProbabilities(st, p) ==
    /\ Len(p.shape) = 2
    /\ p.shape[2] = Length(st)
    /\ \A r \in 1 .. p.shape[1] :
          /\ \A c \in 1 .. p.shape[2] : ~RLess(p.data[r][c], Zero)
          /\ \A i \in 1 .. Len(st) : RSum(Block(st, p.data[r], i)) = One

\* x = torch.log((x + eps) / (1 - x + eps)) of generate_dataset, then
\* logits_to_proba of these logits
logit_round_trip(st, p, eps) == logits_to_proba(st, log_odds(p, eps))

(***************************************************************************)
(* Inputs of the codec                                                     *)
(***************************************************************************)
\* most rows of an input matrix
MaxRows == 1

\* the structures the codec is built with
Structures == {<<2>>, <<3>>, <<1, 2>>}

\* entries of a probability-like input, before any normalisation
RealEntries == {Rat(-1, 1), Zero, One, Rat(2, 1)}

\* odds of the logit inputs
OddsEntries == {Rat(1, 3), One, Rat(3, 1)}

\* the noise scale k of add_noise (default 1., AnomalyCorrection's default 0.)
NoiseScales == {Zero, One}

\* the epsilon of values_to_logits
Epsilons == {Rat(1, 10)}

MaxOf(st) ==
    CHOOSE m \in {st[i] : i \in 1 .. Len(st)} : \A i \in 1 .. Len(st) : st[i] <= m

Matrices(rows, width, entries) == [1 .. rows -> [1 .. width -> entries]]

\* a is a matrix of 0 .. MaxRows rows of this width
IsMatrixArray(a, kind, width, entries) ==
    \E r \in 0 .. MaxRows : \E d \in Matrices(r, width, entries) :
        a = Arr(kind, <<r, width>>, d)

\* a is not 2-dimensional: a vector or a 3-dimensional array
IsNonMatrix(a, kind, width) ==
    \E shape \in {<<width>>, <<1, 1, width>>} : a = Arr(kind, shape, <<>>)

\* a is a one-row matrix of a width the structure does not have
IsWrongWidth(a, kind, st, entries) ==
    \E w \in {Len(st), Length(st), Length(st) + 1}
                \ {IF kind = "values" THEN Len(st) ELSE Length(st)} :
        \E d \in Matrices(1, w, entries) : a = Arr(kind, <<1, w>>, d)

\* the blocks of k probabilities that are not one-hot
MixedBlocks(k) ==
    {[j \in 1 .. k |-> Rat(1, k)],
     [j \in 1 .. k |-> IF j = 1 THEN Rat(1, 4) ELSE IF j = k THEN Rat(3, 4) ELSE Zero]}

\* a is a one-row matrix of probabilities with a block that is not one-hot
IsMixedProbabilities(a, st) ==
    \E row \in [1 .. Length(st) -> {Zero, Rat(1, 4), Rat(1, 3), Rat(1, 2), Rat(3, 4), One}] :
        /\ \A i \in 1 .. Len(st) : st[i] >= 2 => Block(st, row, i) \in MixedBlocks(st[i])
        /\ \A i \in 1 .. Len(st) : st[i] = 1 => Block(st, row, i) = <<One>>
        /\ a = Arr("real", <<1, Length(st)>>, <<row>>)

IsInput(a, st) ==
    \/ IsMatrixArray(a, "real", Length(st), RealEntries)
    \/ IsMixedProbabilities(a, st)
    \/ IsWrongWidth(a, "real", st, {Zero, One})
    \/ IsNonMatrix(a, "real", Length(st))
    \/ IsMatrixArray(a, "values", Len(st), -1 .. MaxOf(st))
    \/ IsWrongWidth(a, "values", st, {0, 1})
    \/ IsNonMatrix(a, "values", Len(st))
    \/ IsMatrixArray(a, "logits", Length(st), OddsEntries)
    \/ IsWrongWidth(a, "logits", st, {One})
    \/ IsNonMatrix(a, "logits", Length(st))

\* the random matrices add_noise may draw for an array of this shape
\* (the two values alternate over the entries, starting with either)
RandomDraws(shape) ==
    IF Len(shape) = 2
    THEN {[r \in 1 .. shape[1] |->
             [c \in 1 .. shape[2] |-> IF (r + c) % 2 = 0 THEN a ELSE b]] :
                <<a, b>> \in {<<Zero, Rat(1, 2)>>, <<Rat(1, 2), Zero>>}}
    ELSE {<<>>}

(***************************************************************************)
(* The codec as a state machine: an input is drawn, one operation is       *)
(* called on it.                                                           *)
(***************************************************************************)
\* no corrector
NoCorrector ==
    /\ model = "None"
    /\ pc = "none"
    /\ run_x = NoArr
    /\ eta = Zero
    /\ n_iter = 0
    /\ threshold = Zero
    /\ run_p = NoArr
    /\ run_i = 0
    /\ loss_value = NaN
    /\ module = NaN
    /\ visits = <<>>
    /\ outcome = ""
    /\ weights = 0
    /\ weight_grad = 0

Init ==
    /\ structure \in Structures
    /\ IsInput(arg, structure)
    /\ extra = <<>>
    /\ op = "init"
    /\ res = NoResult
    /\ NoCorrector
    /\ NoRest

Call(name, x, r) ==
    /\ op = "init"
    /\ op' = name
    /\ extra' = x
    /\ res' = r
    /\ UNCHANGED <<structure, arg, igvars, restvars>>

Normalize ==
    /\ arg.kind = "real"
    /\ Call("normalize", <<>>, normalize(structure, arg))

ToOnehot ==
    /\ arg.kind = "values"
    /\ Call("to_onehot", <<>>, to_onehot(structure, arg))

OnehotToValues ==
    /\ arg.kind = "real"
    /\ Call("onehot_to_values", <<>>, onehot_to_values(structure, arg))

ProbToOnehot ==
    /\ arg.kind = "real"
    /\ Call("prob_to_onehot", <<>>, prob_to_onehot(structure, arg))

AddNoise ==
    /\ arg.kind = "real"
    /\ \E u \in RandomDraws(arg.shape), k \in NoiseScales :
          Call("add_noise", <<u, k>>, add_noise(structure, arg, u, k))

ProbToValues ==
    /\ arg.kind = "real"
    /\ Call("prob_to_values", <<>>, prob_to_values(structure, arg))

LogitsToProba ==
    /\ arg.kind = "logits"
    /\ Call("logits_to_proba", <<>>, logits_to_proba(structure, arg))

LogitsToValues ==
    /\ arg.kind = "logits"
    /\ Call("logits_to_values", <<>>, logits_to_values(structure, arg))

ValuesToLogits ==
    /\ arg.kind = "values"
    /\ \E epsilon \in Epsilons :
          Call("values_to_logits", <<epsilon>>, values_to_logits(structure, arg, epsilon))

\* the logits generate_dataset makes of stored probabilities, converted back
LogitRoundTrip ==
    /\ arg.kind = "real"
    /\ IsProbabilities(structure, arg)
    /\ \E eps \in Epsilons :
          Call("logit_round_trip", <<eps>>, logit_round_trip(structure, arg, eps))

Next ==
    \/ LogitRoundTrip
    \/ Normalize
    \/ ToOnehot
    \/ OnehotToValues
    \/ ProbToOnehot
    \/ AddNoise
    \/ ProbToValues
    \/ LogitsToProba
    \/ LogitsToValues
    \/ ValuesToLogits

Spec == Init /\ [][Next]_vars

(***************************************************************************)
(* class InverseGradient (scripts/inverse_gradient.py)                     *)
(*                                                                         *)
(* The classifier is any function of the point: each call draws a loss     *)
(* (BCELoss of model(p) against zeros, a number >= 0) and a gradient of    *)
(* that loss with respect to p, and a point the classifier was called on   *)
(* before gets the answer it got then.  The gradients drawn have an        *)
(* integer Euclidean norm, so that the step stays rational.                *)
(***************************************************************************)
\* most iterations run is asked for
MaxIter == 2

\* the structures run is called with (n_values)
RunStructures == {<<2>>, <<1, 2>>}

\* the rows run starts from: points of the simplex, and one that is not
StartRows(st) ==
    IF st = <<2>> THEN {<<Rat(1, 2), Rat(1, 2)>>, <<One, Zero>>, <<One, One>>}
    ELSE {<<One, Rat(1, 2), Rat(1, 2)>>, <<One, Zero, One>>}

Etas == {Rat(1, 2), Rat(2, 1)}

Thresholds == {Rat(1, 20), Rat(3, 2)}

Losses == {Rat(1, 100), One, Rat(2, 1)}

SumSq(g) == Sum([k \in 1 .. Len(g) |-> g[k] * g[k]])

\* np.linalg.norm of a flattened one-row gradient with an integer norm
Norm(g) == CHOOSE n \in 0 .. SumSq(g[1]) : n * n = SumSq(g[1])

\* the gradients a classifier may give: one row, entries -3, 0 or 4
Gradients(width) ==
    {<<g>> : g \in {h \in [1 .. width -> {-3, 0, 4}] :
                        \E n \in 0 .. SumSq(h) : n * n = SumSq(h)}}

\* the classifier is a function: a point seen before gets the same answer
Consistent(pt, loss, grad) ==
    \A j \in 1 .. Len(visits) :
        visits[j].pt = pt.data => visits[j].loss = loss /\ visits[j].grad = grad

\* dp = - p.grad; module = norm(dp); dp = dp / module * eta
scaled_step(grad, step) ==
    [r \in 1 .. Len(grad) |->
        [c \in 1 .. Len(grad[r]) |->
            RMul(RDiv(Rat(-grad[r][c], 1), Rat(Norm(grad), 1)), step)]]

\* the step taken up the gradient: p_copy -= dp
add_step_ascent(pt, dp) ==
    Arr("real", pt.shape,
        [r \in 1 .. Len(dp) |->
            [c \in 1 .. Len(dp[r]) |-> RAdd(pt.data[r][c], RNeg(dp[r][c]))]])

\* p_copy = p.detach().clone(); p_copy += dp
add_step(pt, dp) ==
    Arr("real", pt.shape,
        [r \in 1 .. Len(dp) |-> [c \in 1 .. Len(dp[r]) |-> RAdd(pt.data[r][c], dp[r][c])]])

\* the step stored without the projection
project_skip(st, p_copy) == Ok(p_copy)

\* p_copy = proba.normalize(p_copy)
project(st, p_copy) == normalize(st, p_copy)

\* the test of the iteration count made one iteration late
max_iter_passed(count, n) == count > n

\* if i == n_iter
max_iter_reached(count, n) == count = n

\* the parameter value of a stored classifier
Weights == {1}

\* the gradient of the loss with respect to the parameters
ParamGradients == {1}

\* the parameters after an optimizer step down their gradient
weights_after_sgd(w, g) == w - g

\* the parameters after an iteration of run: no optimizer is made or stepped
weights_after_iteration(w, g) == w

\* the state after InverseGradient.__init__ has set its fields
InitIG ==
    /\ structure \in RunStructures
    /\ arg = NoArr
    /\ extra = <<>>
    /\ op = "init"
    /\ res = NoResult
    /\ model = "None"
    /\ pc = "new"
    /\ \E row \in StartRows(structure) : run_x = Arr("real", <<1, Length(structure)>>, <<row>>)
    /\ eta \in Etas
    /\ n_iter \in 1 .. MaxIter
    /\ threshold \in Thresholds
    /\ run_p = NoArr
    /\ run_i = 0
    /\ loss_value = NaN
    /\ module = NaN
    /\ visits = <<>>
    /\ outcome = ""
    /\ weights = 0
    /\ weight_grad = 0
    /\ NoRest

\* _load_model: torch.load returns the model or raises FileNotFoundError
LoadModel ==
    /\ pc = "new"
    /\ \/ model' = "loaded" /\ weights' \in Weights
       \/ model' = "None" /\ weights' = weights
    /\ pc' = "idle"
    /\ UNCHANGED <<structure, codecvars, restvars, run_x, eta, n_iter, threshold, run_p, run_i,
                   loss_value, module, visits, outcome, weight_grad>>

\* run, up to the loop
RunStart ==
    /\ pc = "idle"
    /\ IF model = "None"
       THEN /\ pc' = "raised"
            /\ outcome' = "AssertionError"
            /\ UNCHANGED <<run_p, run_i>>
       ELSE /\ pc' = "loop"
            /\ run_p' = run_x
            /\ run_i' = 0
            /\ UNCHANGED outcome
    /\ UNCHANGED <<structure, codecvars, restvars, model, run_x, eta, n_iter, threshold,
                   loss_value, module, visits, weights, weight_grad>>

\* one iteration of the loop of run
RunIter ==
    /\ pc = "loop"
    /\ \E loss \in Losses, grad \in Gradients(run_p.shape[2]), wgrad \in ParamGradients :
          /\ Consistent(run_p, loss, grad)
          /\ weight_grad' = weight_grad + wgrad
          /\ weights' = weights_after_iteration(weights, weight_grad + wgrad)
          /\ LET p_copy == project(structure, add_step(run_p, scaled_step(grad, eta)))
             IN  /\ run_i' = run_i + 1
                 /\ visits' = Append(visits, [pt |-> run_p.data, loss |-> loss, grad |-> grad])
                 /\ module' = Rat(Norm(grad), 1)
                 /\ IF ~p_copy.ok
                    THEN /\ pc' = "raised"
                         /\ outcome' = p_copy.err
                         /\ UNCHANGED <<run_p, loss_value>>
                    ELSE /\ run_p' = p_copy.val
                         /\ loss_value' = loss
                         /\ IF RLess(loss, threshold)
                            THEN pc' = "returned" /\ outcome' = "threshold"
                            ELSE IF Norm(grad) = 0
                            THEN pc' = "returned" /\ outcome' = "zero_gradient"
                            ELSE IF max_iter_reached(run_i + 1, n_iter)
                            THEN pc' = "returned" /\ outcome' = "max_iter"
                            ELSE pc' = "loop" /\ outcome' = ""
    /\ UNCHANGED <<structure, codecvars, restvars, model, run_x, eta, n_iter, threshold>>

NextIG ==
    \/ LoadModel
    \/ RunStart
    \/ RunIter

SpecIG == InitIG /\ [][NextIG]_vars

(***************************************************************************)
(* Noise schedulers: BaseNoiseScheduler, LinearNoiseScheduler,             *)
(* CosineNoiseScheduler (src/utils.py)                                     *)
(*                                                                         *)
(* A tensor of coefficients is the sequence of its T entries, entry t of   *)
(* the code at position t + 1.  A square root is kept exactly, as the      *)
(* record [sq |-> q] of its radicand: the non-negative number whose square *)
(* is q (nan for q < 0).  The cosine of u * pi / 2, 0 <= u <= 1, is        *)
(* evaluated by the rational formula 4 (1 - u^2) / (4 + u^2), which is     *)
(* exact at 0, pi/3 and pi/2, within 0.002 of the cosine in between and    *)
(* strictly decreasing, as the cosine is.                                  *)
(***************************************************************************)
\* most noise time steps a scheduler is constructed with
MaxT == 3

\* a <= b; every comparison with nan is false
RLeq(a, b) ==
    /\ ~IsNaN(a)
    /\ ~IsNaN(b)
    /\ LET g == GCD(a[2], b[2])
       IN  a[1] * (b[2] \div g) <= b[1] * (a[2] \div g)

RSub(a, b) == RAdd(a, RNeg(b))

\* torch.linspace(start, end, steps)
linspace(start, end, steps) ==
    [k \in 1 .. steps |->
        IF steps = 1 THEN start
        ELSE RAdd(start, RMul(Rat(k - 1, steps - 1), RSub(end, start)))]

RECURSIVE RProd(_)
RProd(s) == IF s = <<>> THEN One ELSE RMul(Head(s), RProd(Tail(s)))

\* torch.cumprod(s, dim=0)
cumprod(s) == [k \in 1 .. Len(s) |-> RProd(SubSeq(s, 1, k))]

\* torch.sqrt of a number
Root(q) == [sq |-> IF RLess(q, Zero) THEN NaN ELSE q]

\* torch.sqrt of a tensor
sqrt(s) == [k \in 1 .. Len(s) |-> Root(s[k])]

\* 1 - s of a tensor
one_minus(s) == [k \in 1 .. Len(s) |-> RSub(One, s[k])]

\* the radicand taken from the squared cumulative product
one_minus_squared(alpha_bar) ==
    [k \in 1 .. Len(alpha_bar) |-> RSub(One, RMul(alpha_bar[k], alpha_bar[k]))]

\* the radicand of sqrt_one_minus_alpha_bar: 1 - self.alpha_bar
noise_variance(alpha_bar) == one_minus(alpha_bar)

\* LinearNoiseScheduler.__init__ and _initialize_schedule
LinearSchedule(T, start, end) ==
    LET betas == linspace(start, end, T)
        alphas == one_minus(betas)
        alpha_bar == cumprod(alphas)
    IN  [kind |-> "linear", noise_time_steps |-> T,
         beta_start |-> start, beta_end |-> end,
         betas |-> betas, alphas |-> alphas, alpha_bar |-> alpha_bar,
         sqrt_alpha_bar |-> sqrt(alpha_bar),
         sqrt_one_minus_alpha_bar |-> sqrt(noise_variance(alpha_bar))]

\* cos(u * pi / 2) for 0 <= u <= 1
cos_half_pi(u) ==
    RDiv(RMul(Rat(4, 1), RSub(One, RMul(u, u))), RAdd(Rat(4, 1), RMul(u, u)))

\* CosineNoiseScheduler._cosine_schedule
cosine_schedule(t, T, s) ==
    LET c == cos_half_pi(RDiv(RAdd(RDiv(t, Rat(T, 1)), s), RAdd(One, s)))
    IN  RMul(c, c)

BetaMin == Rat(1, 10000)

BetaMax == Rat(999, 1000)

\* a clamp at the upper end only
clamp_beta_above(b) == IF RLess(BetaMax, b) THEN BetaMax ELSE b

\* torch.clamp(b, 0.0001, 0.999)
clamp_beta(b) ==
    IF RLess(b, BetaMin) THEN BetaMin
    ELSE IF RLess(BetaMax, b) THEN BetaMax
    ELSE b

\* CosineNoiseScheduler.__init__ and _initialize_schedule
CosineSchedule(T, s) ==
    LET t == linspace(Zero, Rat(T, 1), T)
        alpha_bar ==
            [k \in 1 .. T |->
                RDiv(cosine_schedule(t[k], T, s), cosine_schedule(Zero, T, s))]
        alphas ==
            [k \in 1 .. T |->
                IF k = 1 THEN alpha_bar[1] ELSE RDiv(alpha_bar[k], alpha_bar[k - 1])]
    IN  [kind |-> "cosine", noise_time_steps |-> T, s |-> s,
         betas |-> [k \in 1 .. T |-> clamp_beta(RSub(One, alphas[k]))],
         alphas |-> alphas, alpha_bar |-> alpha_bar,
         sqrt_alpha_bar |-> sqrt(alpha_bar),
         sqrt_one_minus_alpha_bar |-> sqrt(noise_variance(alpha_bar))]

\* the largest k in lo .. hi - 1 with k * k <= n, given lo * lo <= n < hi * hi
RECURSIVE isqrt_between(_, _, _)
isqrt_between(n, lo, hi) ==
    IF hi - lo <= 1 THEN lo
    ELSE LET mid == (lo + hi) \div 2
         IN  IF mid * mid <= n THEN isqrt_between(n, mid, hi)
             ELSE isqrt_between(n, lo, mid)

\* the integer square root of 0 <= n < 2^31
isqrt(n) == isqrt_between(n, 0, 46341)

\* the position of entry t of a coefficient tensor; a negative t counts from
\* the end
At(t) == IF t < 0 THEN sched.noise_time_steps + t + 1 ELSE t + 1

\* Sample arithmetic is floating point: the result of every operation is
\* rounded to the number format.  The format here has two decimal digits;
\* rounding is downwards, and no positive number underflows to zero.
Fl(q) ==
    IF IsNaN(q) THEN NaN
    ELSE LET k == (q[1] * 100) \div q[2]
         IN  IF k = 0 /\ q[1] > 0 THEN Rat(1, 100) ELSE Rat(k, 100)

\* a + b, a - b, a * b and a / b in the number format
FAdd(a, b) == Fl(RAdd(a, b))

FSub(a, b) == Fl(RSub(a, b))

FMul(a, b) == Fl(RMul(a, b))

FDiv(a, b) == Fl(RDiv(a, b))

\* the number a square root stands for, where it enters sample arithmetic:
\* the root of the radicand in the number format, rounded the same way
root_value(r) ==
    LET q == Fl(r.sq)
    IN  IF IsNaN(q) THEN NaN
        ELSE LET k == isqrt(((q[1] * 100) \div q[2]) * 100)
             IN  IF k = 0 /\ q[1] > 0 THEN Rat(1, 100) ELSE Rat(k, 100)

\* entry t of a coefficient tensor, in the number format
coefficient(tensor, t) == Fl(tensor[At(t)])

\* a tensor of zeros shaped like x
zeros_like(x) == [r \in 1 .. Len(x) |-> [c \in 1 .. Len(x[r]) |-> Zero]]

\* BaseNoiseScheduler.add_noise
sched_add_noise(x0, noise, t) ==
    [r \in 1 .. Len(x0) |->
        [c \in 1 .. Len(x0[r]) |->
            FAdd(FMul(root_value(sched.sqrt_alpha_bar[At(t[r])]), x0[r][c]),
                 FMul(root_value(sched.sqrt_one_minus_alpha_bar[At(t[r])]), noise[r][c]))]]

\* as backward_noise, but with a draw at every step
backward_noise_always(x_t, t, z) == z

\* backward_noise = torch.randn_like(x_t) if t[0] > 0 else torch.zeros_like(x_t)
backward_noise(x_t, t, z) == IF t[1] > 0 THEN z ELSE zeros_like(x_t)

\* mean of sample_prev_step
posterior_mean(x_t, predicted_noise, t) ==
    [r \in 1 .. Len(x_t) |->
        [c \in 1 .. Len(x_t[r]) |->
            FDiv(FSub(x_t[r][c],
                      FDiv(FMul(coefficient(sched.betas, t[r]), predicted_noise[r][c]),
                           root_value(sched.sqrt_one_minus_alpha_bar[At(t[r])]))),
                 root_value(Root(sched.alphas[At(t[r])])))]]

\* std of sample_prev_step, one number for each row
posterior_std(t) ==
    [r \in 1 .. Len(t) |->
        FMul(FDiv(FSub(One, coefficient(sched.alpha_bar, t[r] - 1)),
                  FSub(One, coefficient(sched.alpha_bar, t[r]))),
             coefficient(sched.betas, t[r]))]

\* BaseNoiseScheduler.sample_prev_step, z the draw of torch.randn_like
sample_prev_step(x_t, predicted_noise, t, z) ==
    LET mean == posterior_mean(x_t, predicted_noise, t)
        std == posterior_std(t)
        noise == backward_noise(x_t, t, z)
    IN  [r \in 1 .. Len(x_t) |->
            [c \in 1 .. Len(x_t[r]) |-> FAdd(mean[r][c], FMul(std[r], noise[r][c]))]]

\* BaseNoiseScheduler.sample_current_state_inpainting, z the draw of randn_like
sample_current_state_inpainting(x_t_minus_one, t, z) ==
    [r \in 1 .. Len(x_t_minus_one) |->
        [c \in 1 .. Len(x_t_minus_one[r]) |->
            FAdd(FMul(x_t_minus_one[r][c], root_value(Root(sched.alphas[At(t[r])]))),
                 FMul(root_value(Root(sched.betas[At(t[r])])), z[r][c]))]]

\* most rows of a batch
MaxBatch == 2

\* the entries of a sample
SampleEntries == {Zero, One}

\* the entries of a predicted noise
PredictedEntries == {One}

\* the values a draw of torch.randn gives
GaussianDraws == {Rat(-1, 1), One}

\* the tensors of n rows and one column with entries in S
Tensors(n, S) == {[r \in 1 .. n |-> <<v[r]>>] : v \in [1 .. n -> S]}

\* the (beta_start, beta_end) a linear scheduler is constructed with; the last
\* pair is outside 0 < beta_start <= beta_end < 1
BetaRanges ==
    {<<Rat(1, 10), Rat(1, 2)>>, <<Rat(1, 4), Rat(1, 4)>>, <<Rat(-1, 2), Rat(1, 2)>>}

\* the offsets s a cosine scheduler is constructed with
Offsets == {Zero, One}

\* the codec is not in use
NoCodec ==
    /\ structure = <<>>
    /\ arg = NoArr
    /\ extra = <<>>
    /\ op = "init"
    /\ res = NoResult

\* before a scheduler is constructed
InitDDPM ==
    /\ NoCodec
    /\ NoCorrector
    /\ NoEMA
    /\ NoLoader
    /\ NoMasks
    /\ NoOrchestrator
    /\ NoDatasets
    /\ sched = NoSchedule
    /\ dpc = "new"
    /\ call = NoCall
    /\ gen = NoGen

\* LinearNoiseScheduler(noise_time_steps, dataset_shape, beta_start, beta_end)
LinearInit ==
    /\ dpc = "new"
    /\ \E T \in 1 .. MaxT, r \in BetaRanges : sched' = LinearSchedule(T, r[1], r[2])
    /\ dpc' = "ready"
    /\ UNCHANGED <<notddpm, call, gen>>

\* CosineNoiseScheduler(noise_time_steps, dataset_shape, s)
CosineInit ==
    /\ dpc = "new"
    /\ \E T \in 1 .. MaxT, s \in Offsets : sched' = CosineSchedule(T, s)
    /\ dpc' = "ready"
    /\ UNCHANGED <<notddpm, call, gen>>

\* sample_prev_step(x_t, predicted_noise, t) on a batch
SamplePrevStep ==
    /\ dpc = "ready"
    /\ call = NoCall
    /\ gen = NoGen
    /\ \E n \in 1 .. MaxBatch :
          \E x_t \in Tensors(n, SampleEntries), predicted_noise \in Tensors(n, PredictedEntries),
             t \in [1 .. n -> 0 .. sched.noise_time_steps - 1],
             z \in Tensors(n, GaussianDraws) :
              call' = [name |-> "sample_prev_step", x_t |-> x_t,
                       predicted_noise |-> predicted_noise, t |-> t, z |-> z,
                       out |-> sample_prev_step(x_t, predicted_noise, t, z)]
    /\ UNCHANGED <<notddpm, sched, dpc, gen>>

(***************************************************************************)
(* The generation loops of the diffusion engine (class Diffusion, which    *)
(* correct_anomaly calls as self.diffusion.inpaint).  A run is on a batch  *)
(* of one row with two dimensions; every row of a batch is at the same     *)
(* step.  The noise predictor is a function of the noisy sample and the    *)
(* timestep.                                                               *)
(***************************************************************************)
\* no reverse step has been made in the run
NoStep == [made |-> FALSE]

\* the rows torch.randn draws for a sample of two dimensions
GaussianRows == {<<Rat(-1, 1), One>>, <<One, One>>}

\* the rows torch.randn draws for the resampling between two steps
ResampleRows == {<<One, Rat(-1, 1)>>}

\* the anomalous rows in probability space given to inpainting
OriginalRows == {<<One, Zero>>, <<Rat(1, 2), Rat(1, 2)>>}

\* the masks given to inpainting
InpaintMasks ==
    {<<TRUE, FALSE>>, <<FALSE, TRUE>>, <<TRUE, TRUE>>, <<FALSE, FALSE>>}

\* the noise predictors: one answers zeros, one answers its input
Predictors == {"zeros", "echo"}

\* predict(noisy_sample, timestep) -> predicted_noise
predict(predictor, x, t) == IF predictor = "zeros" THEN zeros_like(x) ELSE x

\* the timestep tensor of a batch whose rows are all at step t
full(x, t) == [r \in 1 .. Len(x) |-> t]

\* a boolean of a mask as a number
as_number(b) == IF b THEN One ELSE Zero

\* mask * known_branch + (1 - mask) * unknown_branch
combine(mask, known, unknown) ==
    [r \in 1 .. Len(mask) |->
        [c \in 1 .. Len(mask[r]) |->
            FAdd(FMul(as_number(mask[r][c]), known[r][c]),
                 FMul(FSub(One, as_number(mask[r][c])), unknown[r][c]))]]

\* one reverse step of unconditional sampling at index g.t
sampling_step(g, z) ==
    LET t == full(g.x, g.t)
        predicted == predict(g.predictor, g.x, t)
        out == sample_prev_step(g.x, predicted, t, z)
    IN  [g EXCEPT !.t = g.t - 1, !.x = out, !.visited = Append(@, g.t),
                  !.last = [made |-> TRUE, t |-> g.t, x_t |-> g.x,
                            predicted |-> predicted, z |-> z,
                            noise |-> backward_noise(g.x, t, z),
                            eps |-> <<>>, known |-> <<>>, unknown |-> out,
                            combined |-> out, resampled |-> FALSE]]

\* one reverse step of inpainting at index g.t: the unknown branch, the known
\* branch, their combination, and the resampling before the next step
inpainting_step(g, z, eps, z2) ==
    LET t == full(g.x, g.t)
        predicted == predict(g.predictor, g.x, t)
        unknown == sample_prev_step(g.x, predicted, t, z)
        known == sched_add_noise(g.x0, eps, t)
        combined == combine(g.mask, known, unknown)
        resampled == g.t > 0
    IN  [g EXCEPT !.t = g.t - 1,
                  !.x = IF resampled
                        THEN sample_current_state_inpainting(combined, t, z2)
                        ELSE combined,
                  !.visited = Append(@, g.t),
                  !.last = [made |-> TRUE, t |-> g.t, x_t |-> g.x,
                            predicted |-> predicted, z |-> z,
                            noise |-> backward_noise(g.x, t, z),
                            eps |-> eps, known |-> known, unknown |-> unknown,
                            combined |-> combined, resampled |-> resampled]]

\* unconditional sampling starts from Gaussian noise at t = T - 1
StartSampling ==
    /\ dpc = "ready"
    /\ call = NoCall
    /\ gen = NoGen
    /\ \E predictor \in Predictors, x \in GaussianRows :
          gen' = [mode |-> "sample", predictor |-> predictor,
                  t |-> sched.noise_time_steps - 1, x |-> <<x>>,
                  x0 |-> <<>>, mask |-> <<>>, visited |-> <<>>, last |-> NoStep]
    /\ UNCHANGED <<notddpm, sched, dpc, call>>

\* inpainting of an anomalous row under a mask starts from Gaussian noise
StartInpainting ==
    /\ dpc = "ready"
    /\ call = NoCall
    /\ gen = NoGen
    /\ \E predictor \in Predictors, x \in GaussianRows, x0 \in OriginalRows,
          mask \in InpaintMasks :
          gen' = [mode |-> "inpaint", predictor |-> predictor,
                  t |-> sched.noise_time_steps - 1, x |-> <<x>>,
                  x0 |-> <<x0>>, mask |-> <<mask>>, visited |-> <<>>,
                  last |-> NoStep]
    /\ UNCHANGED <<notddpm, sched, dpc, call>>

\* the body of the sampling loop
SamplingStep ==
    /\ gen.mode = "sample"
    /\ gen.t >= 0
    /\ \E z \in GaussianRows : gen' = sampling_step(gen, <<z>>)
    /\ UNCHANGED <<notddpm, sched, dpc, call>>

\* the body of the inpainting loop
InpaintingStep ==
    /\ gen.mode = "inpaint"
    /\ gen.t >= 0
    /\ \E z \in GaussianRows, eps \in GaussianRows, z2 \in ResampleRows :
          gen' = inpainting_step(gen, <<z>>, <<eps>>, <<z2>>)
    /\ UNCHANGED <<notddpm, sched, dpc, call>>

NextDDPM ==
    \/ LinearInit
    \/ CosineInit
    \/ SamplePrevStep
    \/ StartSampling
    \/ StartInpainting
    \/ SamplingStep
    \/ InpaintingStep

SpecDDPM == InitDDPM /\ [][NextDDPM]_vars

(***************************************************************************)
(* class EMA (src/utils.py)                                                *)
(*                                                                         *)
(* A model is the tuple of its parameters; a parameter's data is a tensor  *)
(* in a storage, named by the storage's id, and heap gives the number each *)
(* storage holds.  Two parameters alias when they name the same storage.   *)
(* The training loop changes a current parameter in place (TrainStep).     *)
(***************************************************************************)
\* most operations on the two models in one run
MaxEmaOps == 3

\* the EMA.beta values, inside (0, 1) as __init__ asserts
EmaBetas == {Rat(1, 2), Rat(1, 4)}

\* the step_start_ema values
StartSteps == 0 .. 2

\* the values a parameter starts with or is trained to
ParamValues == {Zero, One}

\* the numbers held by the parameters refs in the heap h
ValuesIn(h, refs) == [k \in 1 .. Len(refs) |-> h[refs[k]]]

\* EMA.update_average (old is a tensor, never None)
update_average(old, new, b) == RAdd(RMul(old, b), RMul(RSub(One, b), new))

\* the shadow parameters made to name the current parameters' storages
update_model_average_shared(h, ma, cu, b) == [heap |-> h, refs |-> cu]

\* EMA.update_model_average: each shadow parameter's data becomes a new tensor
update_model_average(h, ma, cu, b) ==
    [heap |-> h \o [k \in 1 .. Len(ma) |-> update_average(h[ma[k]], h[cu[k]], b)],
     refs |-> [k \in 1 .. Len(ma) |-> Len(h) + k]]

\* EMA.reset_parameters: load_state_dict copies each value into the shadow
\* parameter's own storage
reset_parameters(h, ma, cu) ==
    [heap |-> [i \in 1 .. Len(h) |->
                  IF \E k \in 1 .. Len(ma) : ma[k] = i
                  THEN h[cu[CHOOSE k \in 1 .. Len(ma) : ma[k] = i]]
                  ELSE h[i]],
     refs |-> ma]

\* the warm-up test passing one call longer
warming_up_late(step, start) == step <= start

\* if self.step < step_start_ema
warming_up(step, start) == step < start

\* the record of an operation: what it found
Found(name) ==
    [op |-> name, count |-> ema_last.count + 1, step_before |-> ema_step,
     old_shadow |-> ValuesIn(heap, ema_params), current |-> ValuesIn(heap, cur_params)]

\* a model of two parameters, its shadow, and EMA(beta)
InitEMA ==
    /\ NoCodec
    /\ NoCorrector
    /\ NoDiffusion
    /\ NoLoader
    /\ NoMasks
    /\ NoOrchestrator
    /\ NoDatasets
    /\ \E cv \in [1 .. 2 -> ParamValues], ev \in [1 .. 2 -> ParamValues] :
          heap = <<cv[1], cv[2], ev[1], ev[2]>>
    /\ cur_params = <<1, 2>>
    /\ ema_params = <<3, 4>>
    /\ ema_beta \in EmaBetas
    /\ ema_step = 0
    /\ step_start_ema \in StartSteps
    /\ ema_last = [op |-> "init", count |-> 0]
    /\ ema_copies = 0

\* EMA.step_ema(ema_model, model, step_start_ema)
StepEma ==
    /\ ema_last.count < MaxEmaOps
    /\ LET warm == warming_up(ema_step, step_start_ema)
           r == IF warm THEN reset_parameters(heap, ema_params, cur_params)
                ELSE update_model_average(heap, ema_params, cur_params, ema_beta)
       IN  /\ heap' = r.heap
           /\ ema_params' = r.refs
           /\ ema_copies' = IF warm THEN ema_copies + 1 ELSE ema_copies
    /\ ema_step' = ema_step + 1
    /\ ema_last' = Found("step_ema")
    /\ UNCHANGED <<notema, cur_params, ema_beta, step_start_ema>>

\* EMA.update_model_average(ma_model, current_model)
UpdateModelAverage ==
    /\ ema_last.count < MaxEmaOps
    /\ LET r == update_model_average(heap, ema_params, cur_params, ema_beta)
       IN  heap' = r.heap /\ ema_params' = r.refs
    /\ ema_last' = Found("update_model_average")
    /\ UNCHANGED <<notema, cur_params, ema_beta, ema_step, step_start_ema, ema_copies>>

\* EMA.reset_parameters(ema_model, model)
ResetParameters ==
    /\ ema_last.count < MaxEmaOps
    /\ LET r == reset_parameters(heap, ema_params, cur_params)
       IN  heap' = r.heap /\ ema_params' = r.refs
    /\ ema_last' = Found("reset_parameters")
    /\ UNCHANGED <<notema, cur_params, ema_beta, ema_step, step_start_ema, ema_copies>>

\* the optimizer writes a new value into a current parameter, in place
TrainStep ==
    /\ ema_last.count < MaxEmaOps
    /\ \E k \in 1 .. Len(cur_params) : \E v \in ParamValues \ {heap[cur_params[k]]} :
          heap' = [heap EXCEPT ![cur_params[k]] = v]
    /\ ema_last' = Found("train")
    /\ UNCHANGED <<notema, cur_params, ema_params, ema_beta, ema_step, step_start_ema,
                   ema_copies>>

NextEMA ==
    \/ StepEma
    \/ UpdateModelAverage
    \/ ResetParameters
    \/ TrainStep

SpecEMA == InitEMA /\ [][NextEMA]_vars

(***************************************************************************)
(* Loading a stored model: ClassificationModel.load_model_pickle           *)
(* (src/utils.py), ClassificationModel.load_from_file                      *)
(* (src/anomaly_correction.py), InverseGradient._load_model                *)
(* (scripts/inverse_gradient.py)                                           *)
(*                                                                         *)
(* A model attribute is "None", "loaded" (what torch.load returned) or     *)
(* "fresh" (what reset made).  The file is written and removed by others.  *)
(***************************************************************************)
Loaders == {"load_model_pickle", "load_from_file", "_load_model"}

\* utils.ClassificationModel.load_model_pickle: torch.load raises
\* FileNotFoundError, which is caught, for a missing file
load_model_pickle(handle, found) == IF found THEN "loaded" ELSE "None"

\* anomaly_correction.ClassificationModel.load_from_file: nothing is done
\* unless os.path.exists, and FileNotFoundError from torch.load is caught
load_from_file(handle, found) == IF found THEN "loaded" ELSE handle

\* InverseGradient._load_model: FileNotFoundError from torch.load is caught
load_model(handle, found) == IF found THEN "loaded" ELSE handle

\* the three objects after their __init__ (InverseGradient.__init__ sets
\* model = None and then calls _load_model)
InitLoad ==
    /\ NoCodec
    /\ NoCorrector
    /\ NoDiffusion
    /\ NoEMA
    /\ NoMasks
    /\ NoOrchestrator
    /\ NoDatasets
    /\ file_exists \in BOOLEAN
    /\ handles = [load_model_pickle |-> "None", load_from_file |-> "None",
                  _load_model |-> load_model("None", file_exists)]
    /\ load_last = [op |-> "init", raised |-> FALSE, found |-> file_exists]

\* the file is saved (training ends) or removed
WriteOrRemoveFile ==
    /\ file_exists' = ~file_exists
    /\ load_last' = [op |-> "file", raised |-> FALSE, found |-> file_exists']
    /\ UNCHANGED <<notload, handles>>

\* ClassificationModel.reset, of either class
Reset ==
    /\ \E which \in {"load_model_pickle", "load_from_file"} :
          handles' = [handles EXCEPT ![which] = "fresh"]
    /\ load_last' = [op |-> "reset", raised |-> FALSE, found |-> file_exists]
    /\ UNCHANGED <<notload, file_exists>>

LoadModelPickle ==
    /\ handles' = [handles EXCEPT !.load_model_pickle =
                       load_model_pickle(handles.load_model_pickle, file_exists)]
    /\ load_last' = [op |-> "load_model_pickle", raised |-> FALSE, found |-> file_exists]
    /\ UNCHANGED <<notload, file_exists>>

LoadFromFile ==
    /\ handles' = [handles EXCEPT !.load_from_file =
                       load_from_file(handles.load_from_file, file_exists)]
    /\ load_last' = [op |-> "load_from_file", raised |-> FALSE, found |-> file_exists]
    /\ UNCHANGED <<notload, file_exists>>

\* _load_model called again on a constructed InverseGradient
LoadModelAgain ==
    /\ handles' = [handles EXCEPT !._load_model =
                       load_model(handles._load_model, file_exists)]
    /\ load_last' = [op |-> "_load_model", raised |-> FALSE, found |-> file_exists]
    /\ UNCHANGED <<notload, file_exists>>

NextLoad ==
    \/ WriteOrRemoveFile
    \/ Reset
    \/ LoadModelPickle
    \/ LoadFromFile
    \/ LoadModelAgain

SpecLoad == InitLoad /\ [][NextLoad]_vars

(***************************************************************************)
(* Masks: SumCategoricalDataset._mask_one_feature_values,                  *)
(* _mask_features_values and element_wise_label_values_comparison          *)
(* (src/utils.py)                                                          *)
(*                                                                         *)
(* An array of label values or of booleans is the tuple of its rows.       *)
(***************************************************************************)
\* the structures of the datasets that are masked
MaskStructures == {<<2, 2>>, <<2, 3>>}

\* the thresholds of the sum of a row
MaskThresholds == 0 .. 2

\* the arrays of n rows whose entry of column c is in S[c]; S a tuple of sets
Rows(n, S) ==
    [1 .. n -> {row \in [1 .. Len(S) -> UNION {S[c] : c \in 1 .. Len(S)}] :
                   \A c \in 1 .. Len(S) : row[c] \in S[c]}]

\* np.sum(array, axis=1) of one row
RowSum(row) == Sum(row)

\* np.max(array, axis=1) of one row
RowMax(row) == CHOOSE v \in {row[c] : c \in 1 .. Len(row)} :
                   \A c \in 1 .. Len(row) : row[c] <= v

\* np.argmax taken as the last position of the maximum
RowArgmaxLast(row) == CHOOSE c \in 1 .. Len(row) :
                          /\ row[c] = RowMax(row)
                          /\ \A d \in c + 1 .. Len(row) : row[d] < row[c]

\* np.argmax(array, axis=1) of one row: the first position of the maximum
RowArgmax(row) == CHOOSE c \in 1 .. Len(row) :
                      /\ row[c] = RowMax(row)
                      /\ \A d \in 1 .. c - 1 : row[d] < row[c]

\* np.repeat(result, structure, axis=1): column c is repeated st[c] times
RECURSIVE repeat_row(_, _)
repeat_row(row, st) ==
    IF row = <<>> THEN <<>>
    ELSE [k \in 1 .. Head(st) |-> Head(row)] \o repeat_row(Tail(row), Tail(st))

repeat(result, st) == [r \in 1 .. Len(result) |-> repeat_row(result[r], st)]

\* self.row_y_np: a row is an anomaly when its sum exceeds the threshold
row_y(row, thr) == RowSum(row) > thr

\* result of _mask_one_feature_values: in a row whose sum exceeds the
\* threshold, the first position of the maximum
mask_one_feature_values(array, thr) ==
    [r \in 1 .. Len(array) |->
        [c \in 1 .. Len(array[r]) |->
            RowSum(array[r]) > thr /\ c = RowArgmax(array[r])]]

\* result of _mask_features_values: in a row whose sum exceeds the threshold,
\* every position of the maximum
mask_features_values(array, thr) ==
    [r \in 1 .. Len(array) |->
        [c \in 1 .. Len(array[r]) |->
            RowSum(array[r]) > thr /\ array[r][c] = RowMax(array[r])]]

\* the positions selected being those where the mask is True
selected_where_true(row_mask) == {c \in 1 .. Len(row_mask) : row_mask[c]}

\* the positions row_input[~row_mask] selects
selected(row_mask) == {c \in 1 .. Len(row_mask) : ~row_mask[c]}

\* the sum of f over the rows 1 .. n
RECURSIVE SumRows(_, _)
SumRows(f, n) == IF n = 0 THEN 0 ELSE f[n] + SumRows(f, n - 1)

\* the positions of a row where input and output differ, the mask left aside
wrongly_changed_anywhere(row_input, row_output, row_mask) ==
    {c \in 1 .. Len(row_input) : row_input[c] # row_output[c]}

\* the positions of masked_input != masked_output in a row
wrongly_changed(row_input, row_output, row_mask) ==
    {c \in selected(row_mask) : row_input[c] # row_output[c]}

\* element_wise_label_values_comparison of arrays of one shape: the number of
\* rows that differ, of known values and of wrongly changed values
element_wise_label_values_comparison(input, output, mask) ==
    LET n == Len(input)
        changed == [r \in 1 .. n |-> wrongly_changed(input[r], output[r], mask[r])]
    IN  [num_rows_differ |->
             SumRows([r \in 1 .. n |-> IF changed[r] # {} THEN 1 ELSE 0], n),
         known_values |->
             SumRows([r \in 1 .. n |-> Cardinality(selected(mask[r]))], n),
         total_wrongly_changed_values |->
             SumRows([r \in 1 .. n |-> Cardinality(changed[r])], n)]

\* the shape of an array of at least one row
shape_of(a) == <<Len(a), Len(a[1])>>

\* input.shape != output.shape or input.shape != mask.shape
shapes_differ(input, output, mask) ==
    shape_of(input) # shape_of(output) \/ shape_of(input) # shape_of(mask)

\* the arrays of value v with one more row or one more column than a
OtherShapes(a, v) ==
    {[r \in 1 .. Len(a) + 1 |-> [c \in 1 .. Len(a[1]) |-> v]],
     [r \in 1 .. Len(a) |-> [c \in 1 .. Len(a[1]) + 1 |-> v]]}

\* the label values each feature takes
LabelSets(st) == [c \in 1 .. Len(st) |-> 0 .. st[c] - 1]

\* a dataset of label values with its threshold
InitMask ==
    /\ structure \in MaskStructures
    /\ arg = NoArr
    /\ extra = <<>>
    /\ op = "init"
    /\ res = NoResult
    /\ NoCorrector
    /\ NoDiffusion
    /\ NoEMA
    /\ NoLoader
    /\ NoOrchestrator
    /\ NoDatasets
    /\ \E n \in 1 .. MaxRows : labels \in Rows(n, LabelSets(structure))
    /\ mask_threshold \in MaskThresholds
    /\ mask_call = [op |-> "init"]

\* _mask_one_feature_values(label_values_mask=True)
MaskOneFeatureValues ==
    /\ mask_call.op = "init"
    /\ LET result == mask_one_feature_values(labels, mask_threshold)
       IN  mask_call' = [op |-> "_mask_one_feature_values",
                         repeated_result |-> repeat(result, structure),
                         result |-> result]
    /\ UNCHANGED <<notmask, labels, mask_threshold>>

\* _mask_features_values(label_values_mask=True)
MaskFeaturesValues ==
    /\ mask_call.op = "init"
    /\ LET result == mask_features_values(labels, mask_threshold)
       IN  mask_call' = [op |-> "_mask_features_values",
                         repeated_result |-> repeat(result, structure),
                         result |-> result]
    /\ UNCHANGED <<notmask, labels, mask_threshold>>

\* element_wise_label_values_comparison(input, output, mask) on the label
\* values, an output of the inpainting and a mask of their shape
ElementWiseComparison ==
    /\ mask_call.op = "init"
    /\ \E output \in Rows(Len(labels), LabelSets(structure))
                         \cup OtherShapes(labels, 0),
          mask \in Rows(Len(labels), [c \in 1 .. Len(structure) |-> BOOLEAN])
                         \cup OtherShapes(labels, FALSE) :
              mask_call' =
                  IF shapes_differ(labels, output, mask)
                  THEN [op |-> "element_wise_label_values_comparison",
                        output |-> output, mask |-> mask,
                        raised |-> "ValueError", result |-> <<>>]
                  ELSE [op |-> "element_wise_label_values_comparison",
                        output |-> output, mask |-> mask, raised |-> "",
                        result |-> element_wise_label_values_comparison(
                                       labels, output, mask)]
    /\ UNCHANGED <<notmask, labels, mask_threshold>>

NextMask ==
    \/ MaskOneFeatureValues
    \/ MaskFeaturesValues
    \/ ElementWiseComparison

SpecMask == InitMask /\ [][NextMask]_vars

(***************************************************************************)
(* class AnomalyCorrection (src/anomaly_correction.py)                     *)
(*                                                                         *)
(* The corrector object (src.inverse_gradient.InverseGradient, whose run   *)
(* returns a dict with "mask" and "values") and the diffusion engine are   *)
(* collaborators: a corrector run answers with a mask and values, the      *)
(* engine's inpaint with one row for each mask.                            *)
(***************************************************************************)
\* most corrector runs correct_anomaly is asked for
MaxRuns == 2

\* the structure of the data of the AnomalyCorrection object
AcStructure == <<2, 2>>

\* the anomalous rows, in index space
AnomalyRows == {<<0, 1>>, <<1, 1>>}

\* the noise the AnomalyCorrection object is made with
AcNoises == {Zero, One}

\* what a corrector run answers: the mask of the moved dimensions and the
\* corrected values
CorrectorAnswers ==
    {[mask |-> <<TRUE, TRUE, FALSE, FALSE>>, values |-> <<1, 1>>],
     [mask |-> <<FALSE, FALSE, TRUE, TRUE>>, values |-> <<0, 0>>]}

\* the rows the engine generates
InpaintedRows == {<<0, 0>>}

\* AnomalyCorrection._anomaly_to_proba
anomaly_to_proba(st, row) == to_onehot(st, Arr("values", <<1, Len(st)>>, <<row>>)).val

\* AnomalyCorrection._inverse_gradient with every run started from the values
\* of the run before it
inverse_gradient_chained(st, p, k, n, draws, answers) ==
    [i \in 1 .. n |->
        [start |-> add_noise(st,
                             IF i = 1 THEN p
                             ELSE anomaly_to_proba(st, answers[i - 1].values),
                             draws[i], k),
         mask |-> answers[i].mask,
         values |-> answers[i].values]]

\* AnomalyCorrection._inverse_gradient: the runs of the loop, each with the
\* point it was started from and the mask and values it answered
inverse_gradient(st, p, k, n, draws, answers) ==
    [i \in 1 .. n |->
        [start |-> add_noise(st, p, draws[i], k),
         mask |-> answers[i].mask,
         values |-> answers[i].values]]

\* the list masks of _inverse_gradient
masks_of(runs) == [i \in 1 .. Len(runs) |-> runs[i].mask]

\* diffusion.inpaint(anomaly_indices, masks, proba): one row for each mask
inpaint(anomaly_indices, masks, row) == [i \in 1 .. Len(masks) |-> row]

\* AnomalyCorrection.correct_anomaly(anomaly, n)
correct_anomaly(a, row, n, draws, answers, generated) ==
    IF a.classification_model = "None"
    THEN [name |-> "correct_anomaly", anomaly |-> row, n |-> n, draws |-> draws,
          runs |-> <<>>, inpaint_calls |-> <<>>, new_values |-> <<>>,
          outcome |-> "AssertionError"]
    ELSE LET p == anomaly_to_proba(a.structure, row)
             runs == inverse_gradient(a.structure, p, a.noise, n, draws, answers)
         IN  IF a.diffusion = "None"
             THEN [name |-> "correct_anomaly", anomaly |-> row, n |-> n,
                   draws |-> draws, runs |-> runs, inpaint_calls |-> <<>>,
                   new_values |-> <<>>, outcome |-> "AttributeError"]
             ELSE [name |-> "correct_anomaly", anomaly |-> row, n |-> n,
                   draws |-> draws, runs |-> runs,
                   inpaint_calls |->
                       <<[anomaly_indices |-> row, masks |-> masks_of(runs)]>>,
                   new_values |-> inpaint(row, masks_of(runs), generated),
                   outcome |-> "returned"]

\* AnomalyCorrection(df_x, y, noise)
InitAC ==
    /\ NoCodec
    /\ NoCorrector
    /\ NoDiffusion
    /\ NoEMA
    /\ NoLoader
    /\ NoMasks
    /\ NoDatasets
    /\ \E k \in AcNoises :
          ac = [made |-> TRUE, structure |-> AcStructure, noise |-> k,
                classification_model |-> "None", inv_grad |-> "None",
                diffusion |-> "None", set_order |-> <<>>]
    /\ ac_call = NoAcCall

\* set_classification_model(model)
SetClassificationModel ==
    /\ ac.made
    /\ ac_call = NoAcCall
    /\ ac.classification_model = "None"
    /\ ac' = [ac EXCEPT !.classification_model = "model",
                        !.inv_grad = "InverseGradient(model)",
                        !.set_order = Append(@, "classification_model")]
    /\ UNCHANGED <<notac, ac_call>>

\* set_diffusion(diffusion)
SetDiffusion ==
    /\ ac.made
    /\ ac_call = NoAcCall
    /\ ac.diffusion = "None"
    /\ ac' = [ac EXCEPT !.diffusion = "diffusion",
                        !.set_order = Append(@, "diffusion")]
    /\ UNCHANGED <<notac, ac_call>>

\* correct_anomaly(anomaly, n)
CorrectAnomaly ==
    /\ ac.made
    /\ ac_call = NoAcCall
    /\ \E row \in AnomalyRows, n \in 0 .. MaxRuns, generated \in InpaintedRows :
          \E draws \in [1 .. n -> RandomDraws(<<1, Length(ac.structure)>>)],
             answers \in [1 .. n -> CorrectorAnswers] :
              ac_call' = correct_anomaly(ac, row, n, draws, answers, generated)
    /\ UNCHANGED <<notac, ac>>

NextAC ==
    \/ SetClassificationModel
    \/ SetDiffusion
    \/ CorrectAnomaly

SpecAC == InitAC /\ [][NextAC]_vars

(***************************************************************************)
(* classes RealDataset and SumCategoricalDataset (src/utils.py)            *)
(*                                                                         *)
(* self.dataset is None or a dict; a dict is a function from its keys.     *)
(* A tensor of labels is kept with its dtype.  get_features_with_mask      *)
(* returns self.dataset itself, not a copy.                                *)
(***************************************************************************)
\* most calls made on a dataset object
MaxCalls == 3

\* the structures of the datasets
DsStructures == {<<2, 2>>}

\* the number of rows of the csv file or asked of the toy dataset
DsSizes == {2}

\* the random probabilities of one row of the toy dataset
ProbabilityRows(st) ==
    {row \in [1 .. Length(st) -> {Zero, Rat(1, 4), Rat(1, 2), Rat(3, 4), One}] :
        \A i \in 1 .. Len(st) : Block(st, row, i) \in MixedBlocks(st[i])}

\* the thresholds of the toy dataset
DsThresholds == {0, 1}

\* del d[k]
del_key(d, k) == [j \in (DOMAIN d) \ {k} |-> d[j]]

\* d[k] = v
set_key(d, k, v) == [j \in (DOMAIN d) \cup {k} |-> IF j = k THEN v ELSE d[j]]

\* self.dataset = None
NoneDataset == [none |-> TRUE, items |-> [x |-> <<>>]]

\* self.dataset = d
SomeDataset(d) == [none |-> FALSE, items |-> d]

\* the positions of a boolean vector that are b, in order
RECURSIVE positions(_, _, _)
positions(y, b, from) ==
    IF from > Len(y) THEN <<>>
    ELSE (IF y[from] = b THEN <<from>> ELSE <<>>) \o positions(y, b, from + 1)

\* x[y] for a boolean vector y (b = TRUE), x[~y] (b = FALSE)
boolean_index(x, y, b) == [k \in 1 .. Len(positions(y, b, 1)) |-> x[positions(y, b, 1)[k]]]

\* np.expand_dims(y, axis=1) as a tensor of this dtype
label_column(y, dtype) == [dtype |-> dtype, data |-> [r \in 1 .. Len(y) |-> <<y[r]>>]]

\* tensor.to(torch.bool)
to_bool(y) == [dtype |-> "bool", data |-> y.data]

\* torch.log((x + eps) / (1 - x + eps)) of the rows x, kept as odds
logits_of(rows, width, eps) == log_odds(Arr("real", <<Len(rows), width>>, rows), eps).data

\* the dtype of dataset['y'] that generate_dataset stores
stored_label_dtype(kind) == IF kind = "RealDataset" THEN "bool" ELSE "float64"

\* the rows generate_dataset starts from: to_onehot(self.row_x_indices_np) or
\* self.probabilities
feature_rows(d) ==
    IF d.kind = "RealDataset"
    THEN to_onehot(d.structure,
                   Arr("values", <<Len(d.row_x_indices_np), Len(d.structure)>>,
                       d.row_x_indices_np)).val.data
    ELSE d.probabilities

\* generate_dataset(remove_anomalies, only_anomalies, indices, eps): what is
\* raised, what is returned and what self.dataset is afterwards
generate_dataset(d, remove_anomalies, only_anomalies, indices, eps) ==
    IF remove_anomalies /\ only_anomalies
    THEN [raised |-> "AssertionError", result |-> NoneDataset, dataset |-> d.dataset]
    ELSE IF indices /\ ~(remove_anomalies \/ only_anomalies)
    THEN [raised |-> "",
          result |-> SomeDataset([x |-> d.row_x_indices_np,
                                  y |-> label_column(d.row_y_np, "float64")]),
          dataset |-> d.dataset]
    ELSE LET keep == remove_anomalies \/ only_anomalies
             x == IF keep THEN boolean_index(feature_rows(d), d.row_y_np, only_anomalies)
                  ELSE feature_rows(d)
             x_indices == IF keep
                          THEN boolean_index(d.row_x_indices_np, d.row_y_np, only_anomalies)
                          ELSE d.row_x_indices_np
             y == IF keep THEN boolean_index(d.row_y_np, d.row_y_np, only_anomalies)
                  ELSE d.row_y_np
             made == SomeDataset([x |-> logits_of(x, Length(d.structure), eps),
                                  y |-> label_column(y, stored_label_dtype(d.kind)),
                                  indices |-> x_indices])
         IN  [raised |-> "", result |-> made, dataset |-> made]

\* dataset = self.dataset if self.dataset is not None else self.generate_dataset()
dataset_or_generate(d, eps) ==
    IF d.dataset.none THEN generate_dataset(d, FALSE, FALSE, FALSE, eps).dataset
    ELSE d.dataset

\* RealDataset.get_features_with_mask()
real_features_with_mask(d, eps) ==
    LET dataset == dataset_or_generate(d, eps).items
    IN  IF "y" \notin DOMAIN dataset
        THEN [raised |-> "KeyError", result |-> NoneDataset,
              dataset |-> SomeDataset(dataset)]
        ELSE LET tmp == to_bool(dataset["y"])
                 out == SomeDataset(set_key(del_key(dataset, "y"), "mask", tmp))
             IN  [raised |-> "", result |-> out, dataset |-> out]

\* SumCategoricalDataset.get_features_with_mask(mask_anomaly_points,
\* mask_one_feature, label_values_mask, eps)
sum_features_with_mask(d, mask_anomaly_points, mask_one_feature, label_values_mask, eps) ==
    LET dataset == dataset_or_generate(d, eps).items
        result == IF mask_one_feature
                  THEN mask_one_feature_values(dataset["indices"], d.threshold)
                  ELSE mask_features_values(dataset["indices"], d.threshold)
        mask == IF mask_anomaly_points THEN to_bool(dataset["y"])
                ELSE [dtype |-> "bool", data |-> repeat(result, d.structure)]
        values_mask == IF ~label_values_mask THEN "None"
                       ELSE IF mask_anomaly_points THEN to_bool(dataset["y"]).data
                       ELSE result
        out == SomeDataset(set_key(set_key(dataset, "mask", mask),
                                   "values_mask", values_mask))
    IN  [raised |-> "", result |-> out, dataset |-> out]

\* the calls of get_features_with_mask made so far on the object
NoHistory == <<>>

\* RealDataset.__init__ after _get_dataset has read the csv file
InitReal(st, rows, y) ==
    [kind |-> "RealDataset", structure |-> st, threshold |-> 0,
     probabilities |-> <<>>, row_x_indices_np |-> rows, row_y_np |-> y,
     dataset |-> NoneDataset]

\* SumCategoricalDataset.__init__ and _generate_dataset on the random matrix p
InitSum(st, p, thr) ==
    LET indices == decode(st, Arr("real", <<Len(p), Length(st)>>, p)).val.data
    IN  [kind |-> "SumCategoricalDataset", structure |-> st, threshold |-> thr,
         probabilities |-> normalize(st, Arr("real", <<Len(p), Length(st)>>, p)).val.data,
         row_x_indices_np |-> indices,
         row_y_np |-> [r \in 1 .. Len(indices) |-> row_y(indices[r], thr)],
         dataset |-> NoneDataset]

\* a dataset object after its constructor
InitDS ==
    /\ structure \in DsStructures
    /\ arg = NoArr
    /\ extra = <<>>
    /\ op = "init"
    /\ res = NoResult
    /\ NoCorrector
    /\ NoDiffusion
    /\ NoEMA
    /\ NoLoader
    /\ NoMasks
    /\ NoOrchestrator
    /\ \E n \in DsSizes :
          \/ \E rows \in Rows(n, LabelSets(structure)), y \in [1 .. n -> BOOLEAN] :
                ds = InitReal(structure, rows, y)
          \/ \E p \in [1 .. n -> ProbabilityRows(structure)], thr \in DsThresholds :
                ds = InitSum(structure, p, thr)
    /\ ds_call = [name |-> "__init__", flags |-> <<>>, raised |-> "",
                  result |-> NoneDataset, history |-> NoHistory, count |-> 0]

\* one more call on the object, with its outcome
DsCalled(name, flags, out, entry) ==
    /\ ds' = [ds EXCEPT !.dataset = out.dataset]
    /\ ds_call' = [name |-> name, flags |-> flags, raised |-> out.raised,
                   result |-> out.result,
                   history |-> ds_call.history \o entry,
                   count |-> ds_call.count + 1]
    /\ UNCHANGED notds

\* what a call of get_features_with_mask leaves in the history
Returned(flags, out) ==
    <<[flags |-> flags, raised |-> out.raised, call |-> ds_call.count + 1,
       keys |-> IF out.raised = "" THEN DOMAIN out.result.items ELSE {},
       mask |-> IF out.raised = "" THEN out.result.items["mask"].data ELSE <<>>]>>

\* generate_dataset of either class
GenerateDataset ==
    /\ ds_call.count < MaxCalls
    /\ \E remove_anomalies \in BOOLEAN, only_anomalies \in BOOLEAN, indices \in BOOLEAN,
          eps \in Epsilons :
          DsCalled("generate_dataset", <<remove_anomalies, only_anomalies, indices>>,
                   generate_dataset(ds, remove_anomalies, only_anomalies, indices, eps),
                   <<>>)

\* RealDataset.get_features_with_mask
RealGetFeaturesWithMask ==
    /\ ds_call.count < MaxCalls
    /\ ds.kind = "RealDataset"
    /\ \E eps \in Epsilons :
          LET out == real_features_with_mask(ds, eps)
          IN  DsCalled("get_features_with_mask", <<>>, out, Returned(<<>>, out))

\* SumCategoricalDataset.get_features_with_mask
SumGetFeaturesWithMask ==
    /\ ds_call.count < MaxCalls
    /\ ds.kind = "SumCategoricalDataset"
    /\ \E mask_anomaly_points \in BOOLEAN, mask_one_feature \in BOOLEAN,
          label_values_mask \in BOOLEAN, eps \in Epsilons :
          LET flags == <<mask_anomaly_points, mask_one_feature, label_values_mask>>
              out == sum_features_with_mask(ds, mask_anomaly_points, mask_one_feature,
                                            label_values_mask, eps)
          IN  DsCalled("get_features_with_mask", flags, out, Returned(flags, out))

NextDS ==
    \/ GenerateDataset
    \/ RealGetFeaturesWithMask
    \/ SumGetFeaturesWithMask

SpecDS == InitDS /\ [][NextDS]_vars

(***************************************************************************)
(* Properties of the codec                                                 *)
(***************************************************************************)
IsMatrixOfWidth(a, w) == Len(a.shape) = 2 /\ a.shape[2] = w

RowsOf(a) == 1 .. a.shape[1]

Features == 1 .. Len(structure)

\* max(0, a) of a number
Positive(a) == IF RLess(a, Zero) THEN Zero ELSE a

\* the sum of feature i's block of a row after negative entries are set to 0
ClampedBlockSum(row, i) ==
    LET blk == Block(structure, row, i)
    IN  RSum([k \in 1 .. Len(blk) |-> Positive(blk[k])])

\* every entry is a number >= 0 and every feature block of every row sums to 1
IsSimplex(st, a) ==
    \A r \in RowsOf(a) :
        /\ \A c \in 1 .. a.shape[2] : ~IsNaN(a.data[r][c]) /\ a.data[r][c][1] >= 0
        /\ \A i \in 1 .. Len(st) : RSum(Block(st, a.data[r], i)) = One

\* C1: normalize of a matrix of width sum(structure) whose feature blocks all
\* have a strictly positive sum once negative entries are clamped to zero
\* returns a matrix of the same shape with every entry >= 0 and every feature
\* block of every row summing to exactly 1.
NormalizeYieldsSimplex ==
    (/\ op = "normalize"
     /\ IsMatrixOfWidth(arg, Length(structure))
     /\ \A r \in RowsOf(arg) : \A i \in Features :
            RLess(Zero, ClampedBlockSum(arg.data[r], i)))
    => /\ res.ok
       /\ res.val.shape = arg.shape
       /\ IsSimplex(structure, res.val)

\* a negative entry was clamped and a proper fraction came out
NormalizeYieldsSimplexWitness ==
    /\ op = "normalize"
    /\ res.ok
    /\ arg.shape[1] >= 1
    /\ \E c \in 1 .. arg.shape[2] : arg.data[1][c][1] < 0
    /\ \E c \in 1 .. arg.shape[2] : res.val.data[1][c] \notin {Zero, One}

\* C2: normalize raises AssertionError, returning nothing, whenever some
\* feature block of some row sums to exactly zero after the clamp; a matrix it
\* returns never holds an undefined (0/0) entry.
NormalizeRejectsZeroBlock ==
    op = "normalize" =>
        /\ (/\ IsMatrixOfWidth(arg, Length(structure))
            /\ \E r \in RowsOf(arg) : \E i \in Features :
                   ClampedBlockSum(arg.data[r], i) = Zero)
           => (~res.ok /\ res.err = "AssertionError" /\ res.val = NoArr)
        /\ res.ok => \A r \in RowsOf(res.val) : \A c \in 1 .. res.val.shape[2] :
                         ~IsNaN(res.val.data[r][c])

\* a block became zero through the clamp while another block is positive
NormalizeRejectsZeroBlockWitness ==
    /\ op = "normalize"
    /\ ~res.ok
    /\ IsMatrixOfWidth(arg, Length(structure))
    /\ arg.shape[1] >= 1
    /\ \E i \in Features :
          /\ ClampedBlockSum(arg.data[1], i) = Zero
          /\ \E c \in 1 .. structure[i] : Block(structure, arg.data[1], i)[c][1] < 0
    /\ \E i \in Features : RLess(Zero, ClampedBlockSum(arg.data[1], i))

\* a matrix of indices whose entries all lie in [0, structure[i])
InRange(a) ==
    \A r \in RowsOf(a) : \A i \in Features :
        0 <= a.data[r][i] /\ a.data[r][i] < structure[i]

\* C3: for every valid index matrix with at least one row,
\* onehot_to_values(to_onehot(x)) = x, and to_onehot(x) holds, in each feature
\* block i of each row, a 1 at offset x[r][i] and 0 elsewhere.
SimplexRoundTrip ==
    (/\ op = "to_onehot"
     /\ IsMatrixOfWidth(arg, Len(structure))
     /\ arg.shape[1] >= 1
     /\ InRange(arg))
    => /\ res.ok
       /\ res.val.shape = <<arg.shape[1], Length(structure)>>
       /\ onehot_to_values(structure, res.val) = Ok(arg)
       /\ \A r \in RowsOf(arg) : \A i \in Features : \A k \in 1 .. structure[i] :
              Block(structure, res.val.data[r], i)[k]
                  = IF k - 1 = arg.data[r][i] THEN One ELSE Zero

\* a row with a non-zero index in its last feature made the round trip
SimplexRoundTripWitness ==
    /\ op = "to_onehot"
    /\ res.ok
    /\ Len(structure) = 2
    /\ arg.data[1][2] = 1
    /\ onehot_to_values(structure, res.val).val.data[1] = arg.data[1]

\* C4: to_onehot fails for every index matrix with a negative entry or an
\* entry of column i that is >= structure[i], and succeeds for every index
\* matrix whose entries all lie in [0, structure[i]).
ToOnehotChecksRange ==
    (op = "to_onehot" /\ IsMatrixOfWidth(arg, Len(structure)))
    => (res.ok <=> InRange(arg))

\* the same for the matrices with at least one row
ToOnehotChecksRangeOfRows ==
    (op = "to_onehot" /\ IsMatrixOfWidth(arg, Len(structure)) /\ arg.shape[1] >= 1)
    => (res.ok <=> InRange(arg))

\* v is the lowest 0-based position of the maximum of blk
IsFirstMax(blk, v) ==
    /\ v \in 0 .. Len(blk) - 1
    /\ \A k \in 1 .. Len(blk) : ~RLess(blk[v + 1], blk[k])
    /\ \A k \in 1 .. v : RLess(blk[k], blk[v + 1])

\* C5: onehot_to_values and prob_to_onehot select, in each feature block, the
\* position of the block maximum, the lowest one on a tie; and prob_to_onehot(p)
\* is to_onehot(onehot_to_values(p)) for every matrix p of width sum(structure).
ArgmaxDecoding ==
    LET Decoded == onehot_to_values(structure, arg)
    IN  /\ (op = "onehot_to_values" /\ IsMatrixOfWidth(arg, Length(structure)))
           => /\ res.ok
              /\ \A r \in RowsOf(arg) : \A i \in Features :
                     IsFirstMax(Block(structure, arg.data[r], i), res.val.data[r][i])
        /\ (op = "prob_to_onehot" /\ res.ok)
           => \A r \in RowsOf(arg) : \A i \in Features : \A k \in 1 .. structure[i] :
                  Block(structure, res.val.data[r], i)[k]
                      = IF IsFirstMax(Block(structure, arg.data[r], i), k - 1)
                        THEN One ELSE Zero
        /\ (op = "prob_to_onehot" /\ IsMatrixOfWidth(arg, Length(structure)))
           => res = IF Decoded.ok THEN to_onehot(structure, Decoded.val) ELSE Decoded

\* a tie for the maximum was decoded to its first position, which is not 0
ArgmaxDecodingWitness ==
    /\ op = "prob_to_onehot"
    /\ res.ok
    /\ structure = <<3>>
    /\ arg.data[1][2] = arg.data[1][3]
    /\ RLess(arg.data[1][1], arg.data[1][2])
    /\ res.val.data[1] = <<Zero, One, Zero>>

\* the width an operation expects of its input
ExpectedWidth(name) ==
    IF name \in {"to_onehot", "values_to_logits"} THEN Len(structure)
    ELSE Length(structure)

\* C6: every codec operation fails, returning nothing, when its input is not
\* 2-dimensional or has another width than the operation expects:
\* sum(structure), and for to_onehot and values_to_logits the number of
\* features.
InvalidShapeIsFatal ==
    (op # "init" /\ ~IsMatrixOfWidth(arg, ExpectedWidth(op)))
    => (~res.ok /\ res.val = NoArr)

\* a logit matrix that is one column too wide was refused
InvalidShapeIsFatalWitness ==
    /\ op = "logits_to_values"
    /\ arg.shape = <<1, Length(structure) + 1>>
    /\ ~res.ok

(***************************************************************************)
(* Properties of the inverse-gradient corrector                            *)
(***************************************************************************)
\* a condition on which run returns holds in iteration j
StopAt(j) ==
    \/ RLess(visits[j].loss, threshold)
    \/ Norm(visits[j].grad) = 0
    \/ j = n_iter

\* C7: for every n_iter >= 1, eta, threshold and classifier, run takes at most
\* n_iter iterations: it starts no iteration after the first one in which the
\* loss is below threshold, the gradient norm is zero or the count is n_iter,
\* it returns only in such an iteration, and until it has ended its next
\* iteration can be taken.
InverseGradientTermination ==
    (pc \in {"loop", "returned", "raised"} /\ model = "loaded")
    => /\ run_i <= n_iter
       /\ Len(visits) = run_i
       /\ \A j \in 1 .. run_i - 1 : ~StopAt(j)
       /\ pc = "loop" =>
            /\ \A j \in 1 .. run_i : ~StopAt(j)
            /\ \E loss \in Losses, grad \in Gradients(run_p.shape[2]) :
                   Consistent(run_p, loss, grad)
       /\ pc = "returned" => run_i >= 1 /\ StopAt(run_i)

\* a run that used all of its two iterations
InverseGradientTerminationWitness ==
    /\ pc = "returned"
    /\ outcome = "max_iter"
    /\ n_iter = 2
    /\ run_i = 2

\* C8: when the gradient is exactly zero at the first iteration (and the loss
\* is not below threshold), run ends after exactly 1 iteration with the
\* zero-gradient warning, raises nothing and returns a point and a loss value.
ZeroGradientIsNonFatal ==
    (/\ Len(visits) >= 1
     /\ Norm(visits[1].grad) = 0
     /\ ~RLess(visits[1].loss, threshold))
    => /\ pc = "returned"
       /\ outcome = "zero_gradient"
       /\ run_i = 1
       /\ ~IsNaN(loss_value)
       /\ IsSimplex(structure, run_p)

\* C9, as claimed: when run stops on the iteration count, no point visited has
\* a strictly lower loss than the returned point (stated for the runs whose
\* returned point the classifier was called on, so that its loss is known).
ReturnsBestPoint ==
    (pc = "returned" /\ outcome = "max_iter")
    => \A j \in 1 .. Len(visits), k \in 1 .. Len(visits) :
           visits[k].pt = run_p.data => ~RLess(visits[j].loss, visits[k].loss)

\* the point one descent step of length eta from the visit v, projected
StepFrom(v) ==
    normalize(structure,
              Arr("real", run_x.shape,
                  [r \in 1 .. Len(v.pt) |->
                      [c \in 1 .. Len(v.pt[r]) |->
                          RAdd(v.pt[r][c],
                               RNeg(RDiv(RMul(Rat(v.grad[r][c], 1), eta),
                                         Rat(Norm(v.grad), 1))))]]))

\* C9, amended: when run stops on the iteration count, the caller receives the
\* last point computed, the projected descent step from the point of iteration
\* n_iter, and the loss of the point of iteration n_iter, which is not below
\* threshold.
ReturnsLastPoint ==
    (pc = "returned" /\ outcome = "max_iter")
    => /\ run_i = n_iter
       /\ Len(visits) = n_iter
       /\ loss_value = visits[n_iter].loss
       /\ ~RLess(loss_value, threshold)
       /\ Ok(run_p) = StepFrom(visits[n_iter])

\* the returned point is not the best one: an earlier point had a lower loss
ReturnsLastPointWitness ==
    /\ pc = "returned"
    /\ outcome = "max_iter"
    /\ n_iter = 2
    /\ RLess(visits[1].loss, visits[2].loss)
    /\ run_p.data # visits[1].pt
    /\ run_p.data # visits[2].pt

\* C10: given a point of the simplex, the point run holds at the end of every
\* iteration and the point it returns have every entry >= 0 and every feature
\* block of every row summing to 1.
CorrectorKeepsSimplex ==
    (IsSimplex(structure, run_x) /\ pc \in {"loop", "returned"})
    => IsSimplex(structure, run_p)

\* two steps were taken, one of which left the simplex before its projection
CorrectorKeepsSimplexWitness ==
    /\ pc = "returned"
    /\ run_i = 2
    /\ IsSimplex(structure, run_x)
    /\ run_p # run_x
    /\ \E c \in 1 .. run_p.shape[2] : run_p.data[1][c] \notin {Zero, One}
    /\ \E j \in 1 .. 2 : \E c \in 1 .. run_p.shape[2] :
          RLess(RAdd(visits[j].pt[1][c],
                     RNeg(RDiv(RMul(Rat(visits[j].grad[1][c], 1), eta),
                               Rat(Norm(visits[j].grad), 1)))), Zero)

\* C11: run never changes the classifier's parameter values: every step of a
\* run, whichever way the run ends, leaves each parameter at the value it had
\* before the call; only the point (and the gradient buffers) are updated.
RunKeepsParameters ==
    [][(pc \in {"idle", "loop"}) => (weights' = weights)]_vars

\* two iterations have accumulated parameter gradients and moved the point
RunKeepsParametersWitness ==
    /\ pc = "returned"
    /\ run_i = 2
    /\ weights \in Weights
    /\ weight_grad = 2
    /\ run_p # run_x

(***************************************************************************)
(* Properties of the noise schedulers                                      *)
(***************************************************************************)
\* C12: for the linear scheduler with 0 < beta_start <= beta_end < 1 and for
\* the cosine scheduler, and every T >= 1: the five coefficient sequences have
\* length T, alpha_bar is non-increasing in t, alpha_bar[0] <= 1, and
\* sqrt_alpha_bar[t]^2 + sqrt_one_minus_alpha_bar[t]^2 = 1 for every t.
ScheduleMonotonicity ==
    (\/ sched.kind = "cosine"
     \/ /\ sched.kind = "linear"
        /\ RLess(Zero, sched.beta_start)
        /\ RLeq(sched.beta_start, sched.beta_end)
        /\ RLess(sched.beta_end, One))
    => LET T == sched.noise_time_steps
       IN  /\ Len(sched.betas) = T
           /\ Len(sched.alphas) = T
           /\ Len(sched.alpha_bar) = T
           /\ Len(sched.sqrt_alpha_bar) = T
           /\ Len(sched.sqrt_one_minus_alpha_bar) = T
           /\ \A k \in 1 .. T - 1 : RLeq(sched.alpha_bar[k + 1], sched.alpha_bar[k])
           /\ RLeq(sched.alpha_bar[1], One)
           /\ \A k \in 1 .. T :
                  RAdd(sched.sqrt_alpha_bar[k].sq,
                       sched.sqrt_one_minus_alpha_bar[k].sq) = One

\* a cosine schedule of three steps that falls from 1 through a proper
\* fraction to 0
ScheduleMonotonicityWitness ==
    /\ sched.kind = "cosine"
    /\ sched.noise_time_steps = 3
    /\ sched.alpha_bar[1] = One
    /\ RLess(Zero, sched.alpha_bar[2]) /\ RLess(sched.alpha_bar[2], One)
    /\ sched.alpha_bar[3] = Zero

\* C13: in the cosine scheduler, for every t, betas[t] is
\* 1 - alpha_bar[t] / alpha_bar[t-1] (alpha_bar[-1] read as 1 for t = 0)
\* clamped into [1e-4, 0.999]; hence every beta lies in [1e-4, 0.999].
CosineBetasClamped ==
    sched.kind = "cosine" =>
        \A k \in 1 .. sched.noise_time_steps :
            LET before == IF k = 1 THEN One ELSE sched.alpha_bar[k - 1]
                raw == RSub(One, RDiv(sched.alpha_bar[k], before))
            IN  /\ RLeq(BetaMin, sched.betas[k])
                /\ RLeq(sched.betas[k], BetaMax)
                /\ RLess(raw, BetaMin) => sched.betas[k] = BetaMin
                /\ RLess(BetaMax, raw) => sched.betas[k] = BetaMax
                /\ (RLeq(BetaMin, raw) /\ RLeq(raw, BetaMax)) => sched.betas[k] = raw

\* a schedule whose first beta was raised to 1e-4, whose last was lowered to
\* 0.999 and whose middle one was kept
CosineBetasClampedWitness ==
    /\ sched.kind = "cosine"
    /\ sched.noise_time_steps = 3
    /\ sched.betas[1] = BetaMin
    /\ sched.betas[3] = BetaMax
    /\ RLess(BetaMin, sched.betas[2]) /\ RLess(sched.betas[2], BetaMax)
    /\ sched.alphas[1] = One
    /\ sched.alphas[3] = Zero

\* the scheduler was constructed within its documented parameter range
ValidSchedule ==
    \/ sched.kind = "cosine"
    \/ /\ sched.kind = "linear"
       /\ RLess(Zero, sched.beta_start)
       /\ RLeq(sched.beta_start, sched.beta_end)
       /\ RLess(sched.beta_end, One)

\* a == b of two floating-point numbers: false when either is nan
NumEq(a, b) == ~IsNaN(a) /\ ~IsNaN(b) /\ a = b

\* C14: in the result of sample_prev_step, every row whose timestep is 0 is
\* exactly the posterior mean of x_t and the predicted noise, without a random
\* term, and every row whose timestep is > 0 is that mean plus the fresh
\* Gaussian draw scaled by the schedule coefficient; for both schedulers and
\* for batches whose rows carry different timesteps.
TerminalStepAddsNoNoise ==
    (call.name = "sample_prev_step" /\ ValidSchedule) =>
        LET mean == posterior_mean(call.x_t, call.predicted_noise, call.t)
            std == posterior_std(call.t)
        IN  \A r \in 1 .. Len(call.t) : \A c \in 1 .. Len(call.x_t[r]) :
                IF call.t[r] = 0
                THEN NumEq(call.out[r][c], mean[r][c])
                ELSE call.out[r][c] = FAdd(mean[r][c], FMul(std[r], call.z[r][c]))

\* the same for the linear scheduler on batches whose rows carry one timestep
TerminalStepAddsNoNoiseUniform ==
    (/\ call.name = "sample_prev_step"
     /\ sched.kind = "linear"
     /\ RLess(Zero, sched.beta_start) /\ RLess(sched.beta_end, One)
     /\ \A r \in 1 .. Len(call.t) : call.t[r] = call.t[1])
    => LET mean == posterior_mean(call.x_t, call.predicted_noise, call.t)
           std == posterior_std(call.t)
       IN  \A r \in 1 .. Len(call.t) : \A c \in 1 .. Len(call.x_t[r]) :
               IF call.t[r] = 0
               THEN NumEq(call.out[r][c], mean[r][c])
               ELSE call.out[r][c] = FAdd(mean[r][c], FMul(std[r], call.z[r][c]))

\* the known dimensions of the last step's state are the known branch and the
\* others are the unknown branch
KnownsFromOriginal ==
    LET known == sched_add_noise(gen.x0, gen.last.eps, full(gen.x0, gen.last.t))
    IN  \A r \in 1 .. Len(gen.mask) : \A c \in 1 .. Len(gen.mask[r]) :
            IF gen.mask[r][c]
            THEN NumEq(gen.last.combined[r][c], known[r][c])
            ELSE gen.last.combined[r][c] = gen.last.unknown[r][c]

\* C19: at every step of an inpainting run with mask m, and so in its output,
\* every dimension where m is True holds the original row forward-noised to
\* that step and nothing of the generated branch, and every dimension where m
\* is False holds the generated branch.
InpaintingPreservesKnowns ==
    (gen.mode = "inpaint" /\ gen.last.made /\ ValidSchedule) =>
        /\ KnownsFromOriginal
        /\ gen.t = -1 => gen.x = gen.last.combined

\* the same for the linear scheduler, whose generated branch is never nan
InpaintingPreservesKnownsLinear ==
    (/\ gen.mode = "inpaint"
     /\ gen.last.made
     /\ ValidSchedule
     /\ sched.kind = "linear")
    => KnownsFromOriginal /\ (gen.t = -1 => gen.x = gen.last.combined)

\* with the cosine scheduler the known dimensions are lost at the last step
KnownsLostAtLastStep ==
    /\ gen.mode = "inpaint"
    /\ gen.t = -1
    /\ sched.kind = "cosine"
    /\ sched.noise_time_steps = 1
    /\ gen.mask = <<(<<TRUE, FALSE>>)>>
    /\ IsNaN(gen.x[1][1])

\* seq is top, top - 1, top - 2, ...
DescendingFrom(top, seq) == \A k \in 1 .. Len(seq) : seq[k] = top - (k - 1)

EmaWarmUp ==
    /\ ema_last.op = "step_ema" =>
          /\ ema_step = ema_last.step_before + 1
          /\ \A k \in 1 .. Len(ema_params) :
                 heap[ema_params[k]] =
                     IF ema_last.step_before < step_start_ema
                     THEN ema_last.current[k]
                     ELSE RAdd(RMul(ema_beta, ema_last.old_shadow[k]),
                               RMul(RSub(One, ema_beta), ema_last.current[k]))
    /\ ema_copies = IF ema_step < step_start_ema THEN ema_step ELSE step_start_ema

\* the first call copied, the model was trained, the second call blended
EmaWarmUpWitness ==
    /\ ema_last.op = "step_ema"
    /\ step_start_ema = 1
    /\ ema_last.step_before = 1
    /\ ema_copies = 1
    /\ ValuesIn(heap, ema_params) # ema_last.current
    /\ ValuesIn(heap, ema_params) # ema_last.old_shadow

\* C16: step_ema, update_model_average and reset_parameters never modify a
\* parameter of the current model; after any of them the shadow shares no
\* storage with the current model, and a change of a current parameter leaves
\* every shadow parameter as it was.
EmaOwnsShadow ==
    [][/\ (ema_last'.op \in {"step_ema", "update_model_average", "reset_parameters"})
            => /\ cur_params' = cur_params
               /\ ValuesIn(heap', cur_params') = ValuesIn(heap, cur_params)
       /\ \A i \in 1 .. Len(ema_params') : \A j \in 1 .. Len(cur_params') :
              ema_params'[i] # cur_params'[j]
       /\ (ema_last'.op = "train")
            => ValuesIn(heap', ema_params') = ValuesIn(heap, ema_params)]_vars

\* the shadow, moved to tensors of its own by a blend, stayed as it was when
\* the current model was trained
EmaOwnsShadowWitness ==
    /\ ema_last.op = "train"
    /\ ema_params # <<3, 4>>
    /\ ema_last.old_shadow = ValuesIn(heap, ema_params)
    /\ ema_last.current # ValuesIn(heap, cur_params)
    /\ ValuesIn(heap, ema_params) # ValuesIn(heap, cur_params)

(***************************************************************************)
(* Properties of the model loaders                                         *)
(***************************************************************************)
\* C17: a load of a model whose file does not exist raises nothing and leaves
\* the model attribute None, whatever resets and loads came before; for
\* load_model_pickle, load_from_file and _load_model.
MissingModelIsAbsence ==
    (load_last.op \in Loaders /\ ~load_last.found)
    => /\ ~load_last.raised
       /\ handles[load_last.op] = "None"

\* the same for load_model_pickle alone
MissingPickleIsAbsence ==
    (load_last.op = "load_model_pickle" /\ ~load_last.found)
    => /\ ~load_last.raised
       /\ handles[load_last.op] = "None"

(***************************************************************************)
(* Properties of the masks                                                 *)
(***************************************************************************)
\* feature c is the one the one-feature mask singles out in the row: the row's
\* sum exceeds the threshold and c is the first feature with the largest value
FirstExcess(row, c) ==
    /\ RowSum(row) > mask_threshold
    /\ \A d \in 1 .. Len(row) : row[d] <= row[c]
    /\ \A d \in 1 .. c - 1 : row[d] < row[c]

\* feature c is one the features mask singles out in the row: the row's sum
\* exceeds the threshold and c has the largest value
AnyExcess(row, c) ==
    /\ RowSum(row) > mask_threshold
    /\ \A d \in 1 .. Len(row) : row[d] <= row[c]

CorrectionOrchestration ==
    (ac_call.name = "correct_anomaly" /\ ac_call.outcome = "returned") =>
        LET p == anomaly_to_proba(ac.structure, ac_call.anomaly)
        IN  /\ Len(ac_call.runs) = ac_call.n
            /\ \A i \in 1 .. ac_call.n :
                   ac_call.runs[i].start
                       = add_noise(ac.structure, p, ac_call.draws[i], ac.noise)
            /\ Len(ac_call.inpaint_calls) = 1
            /\ Len(ac_call.inpaint_calls[1].masks) = ac_call.n
            /\ \A i \in 1 .. ac_call.n :
                   ac_call.inpaint_calls[1].masks[i] = ac_call.runs[i].mask
            /\ ac_call.inpaint_calls[1].anomaly_indices = ac_call.anomaly
            /\ Len(ac_call.new_values) = ac_call.n

\* two runs with different answers were made with noise and the call returned
CorrectionOrchestrationWitness ==
    /\ ac_call.name = "correct_anomaly"
    /\ ac_call.outcome = "returned"
    /\ ac_call.n = 2
    /\ ac.noise = One
    /\ ac_call.runs[1].mask # ac_call.runs[2].mask
    /\ ac_call.runs[1].start.ok

\* C28: a call of correct_anomaly made while the classifier or the diffusion
\* engine has not been set ends in an error without a corrector run; one made
\* after both were set, in either order, makes the corrector runs.
CorrectAnomalyNeedsBothModels ==
    ac_call.name = "correct_anomaly" =>
        IF ac.classification_model = "None" \/ ac.diffusion = "None"
        THEN ac_call.outcome # "returned" /\ ac_call.runs = <<>>
        ELSE ac_call.outcome = "returned" /\ Len(ac_call.runs) = ac_call.n

\* the same with only the classifier required before the runs
CorrectAnomalyNeedsClassifier ==
    ac_call.name = "correct_anomaly" =>
        /\ ac.classification_model = "None" =>
               ac_call.outcome = "AssertionError" /\ ac_call.runs = <<>>
        /\ ac.classification_model # "None" => Len(ac_call.runs) = ac_call.n
        /\ (ac_call.outcome = "returned")
               = (ac.classification_model # "None" /\ ac.diffusion # "None")

(***************************************************************************)
(* More properties of the codec                                            *)
(***************************************************************************)
\* |a - b| <= d
Within(a, b, d) == RLeq(RSub(a, b), d) /\ RLeq(RSub(b, a), d)

\* C22: for a matrix p of probabilities, the logits log((p + eps) / (1 - p +
\* eps)) converted back by sigmoid and normalize give, at every entry of a
\* block of k entries, (p + eps) / (1 + k * eps), which is within k * eps of p.
LogitRoundTripWithinTolerance ==
    op = "logit_round_trip" =>
        /\ res.ok
        /\ res.val.shape = arg.shape
        /\ \A r \in 1 .. arg.shape[1] : \A i \in 1 .. Len(structure) :
              \A c \in Start(structure, i) + 1 .. Start(structure, i) + structure[i] :
                  LET k == Rat(structure[i], 1)
                      eps == extra[1]
                  IN  /\ res.val.data[r][c]
                            = RDiv(RAdd(arg.data[r][c], eps), RAdd(One, RMul(k, eps)))
                      /\ Within(res.val.data[r][c], arg.data[r][c], RMul(k, eps))

\* probabilities with a block that is not one-hot made the round trip
LogitRoundTripWithinToleranceWitness ==
    /\ op = "logit_round_trip"
    /\ structure = <<1, 2>>
    /\ arg.data = <<(<<One, Rat(1, 4), Rat(3, 4)>>)>>
    /\ res.ok

(***************************************************************************)
(* More properties of the masks                                            *)
(***************************************************************************)
\* the features a row of a per-feature mask marks
Marked(row_mask) == {c \in 1 .. Len(row_mask) : row_mask[c]}

ComparisonRaises ==
    /\ mask_call.op = "element_wise_label_values_comparison"
    /\ mask_call.raised = "ValueError"
    /\ shape_of(mask_call.output) = shape_of(labels)

(***************************************************************************)
(* More properties of the noise schedulers                                 *)
(***************************************************************************)
\* the numbers sample_prev_step divides by at step t
Denominators(t) ==
    <<root_value(sched.sqrt_one_minus_alpha_bar[At(t)]),
      coefficient(sched.alphas, t),
      FSub(One, coefficient(sched.alpha_bar, t))>>

\* C25: in a call of sample_prev_step, for either scheduler and every row's t
\* in 0 .. T-1, none of sqrt_one_minus_alpha_bar[t], alphas[t] and
\* 1 - alpha_bar[t] is zero and every entry of the returned row is finite;
\* a row at t = 0 is the posterior mean, with no part for the coefficient
\* that the index t - 1 wraps around to.
DenominatorsNonZero ==
    (call.name = "sample_prev_step" /\ ValidSchedule) =>
        \A r \in 1 .. Len(call.t) :
            /\ call.t[r] \in 0 .. sched.noise_time_steps - 1
            /\ \A k \in 1 .. 3 : Denominators(call.t[r])[k] \notin {Zero, NaN}
            /\ \A c \in 1 .. Len(call.out[r]) : ~IsNaN(call.out[r][c])
            /\ call.t[r] = 0 =>
                   call.out[r]
                       = posterior_mean(call.x_t, call.predicted_noise, call.t)[r]

\* the same without the last part, for the linear scheduler
DenominatorsNonZeroLinear ==
    (call.name = "sample_prev_step" /\ ValidSchedule /\ sched.kind = "linear") =>
        \A r \in 1 .. Len(call.t) :
            /\ \A k \in 1 .. 3 : Denominators(call.t[r])[k] \notin {Zero, NaN}
            /\ \A c \in 1 .. Len(call.out[r]) : ~IsNaN(call.out[r][c])

\* a cosine scheduler divided by zero at t = 0
ZeroDenominatorAtLastStep ==
    /\ call.name = "sample_prev_step"
    /\ sched.kind = "cosine"
    /\ Len(call.t) = 1
    /\ call.t[1] = 0
    /\ Denominators(0)[1] = Zero
    /\ Denominators(0)[3] = Zero
    /\ IsNaN(call.out[1][1])

\* C26: for either scheduler and every t in 0 .. T-1, alphas[t] + betas[t] is
\* 1 and alpha_bar[t] is the product of alphas[0 .. t], so that the squares
\* of the coefficients of the inpainting resampling sum to 1.
CoefficientConsistency ==
    (dpc = "ready" /\ ValidSchedule) =>
        \A k \in 1 .. sched.noise_time_steps :
            /\ NumEq(RAdd(sched.alphas[k], sched.betas[k]), One)
            /\ NumEq(sched.alpha_bar[k], cumprod(sched.alphas)[k])

\* the same for the linear scheduler
CoefficientConsistencyLinear ==
    (dpc = "ready" /\ ValidSchedule /\ sched.kind = "linear") =>
        \A k \in 1 .. sched.noise_time_steps :
            /\ NumEq(RAdd(sched.alphas[k], sched.betas[k]), One)
            /\ NumEq(sched.alpha_bar[k], cumprod(sched.alphas)[k])

\* the first coefficients of a cosine scheduler sum to more than 1
ClampedBetaBreaksSum ==
    /\ dpc = "ready"
    /\ sched.kind = "cosine"
    /\ sched.alphas[1] = One
    /\ sched.betas[1] = BetaMin

(***************************************************************************)
(* More properties of the corrector                                        *)
(***************************************************************************)
\* C27, as claimed: in every case where run returns (below threshold, zero
\* gradient, iteration count), the loss it returns is the classifier's loss
\* of the point it returns (stated for the runs whose returned point the
\* classifier was called on, so that its loss is known); a return below
\* threshold hands back a point whose own loss is below threshold.
ReturnedLossIsOfReturnedPoint ==
    (pc = "returned")
    => \A k \in 1 .. Len(visits) :
           visits[k].pt = run_p.data
           => /\ visits[k].loss = loss_value
              /\ outcome = "threshold" => RLess(visits[k].loss, threshold)

\* what run does return: the loss of the point of its last iteration, and the
\* projected descent step from that point
ReturnedLossIsOfLastVisit ==
    (pc = "returned")
    => /\ Len(visits) = run_i
       /\ loss_value = visits[run_i].loss
       /\ Ok(run_p) = StepFrom(visits[run_i])
       /\ outcome = "threshold" => RLess(loss_value, threshold)

\* a return below threshold of a point whose own loss is above it
SuccessWithLossAboveThreshold ==
    /\ pc = "returned"
    /\ outcome = "threshold"
    /\ run_i = 2
    /\ visits[1].pt = run_p.data
    /\ ~RLess(visits[1].loss, threshold)

(***************************************************************************)
(* Decoding and normalisation                                              *)
(***************************************************************************)
\* C30: for every matrix p of width sum(structure) whose feature blocks all
\* have a strictly positive sum once negative entries are clamped to zero,
\* prob_to_onehot(normalize(p)) is prob_to_onehot(p) and
\* normalize(normalize(p)) is normalize(p); so the index row decoded from p,
\* which SumCategoricalDataset stores, is the one decoded from the normalized
\* probabilities it stores.
DecodingInvariantUnderNormalization ==
    (/\ op = "normalize"
     /\ IsMatrixOfWidth(arg, Length(structure))
     /\ \A r \in RowsOf(arg) : \A i \in Features :
            RLess(Zero, ClampedBlockSum(arg.data[r], i)))
    => /\ res.ok
       /\ prob_to_onehot(structure, res.val) = prob_to_onehot(structure, arg)
       /\ normalize(structure, res.val) = res
       /\ decode(structure, res.val) = decode(structure, arg)
       /\ prob_to_values(structure, arg) = decode(structure, arg)

\* a row with a negative entry and a block sum other than 1 was normalized,
\* and its maximum is not at the first position
DecodingInvariantUnderNormalizationWitness ==
    /\ op = "normalize"
    /\ res.ok
    /\ arg.shape[1] >= 1
    /\ res.val # arg
    /\ \E c \in 1 .. arg.shape[2] : arg.data[1][c][1] < 0
    /\ decode(structure, res.val).ok
    /\ \E i \in Features : decode(structure, res.val).val.data[1][i] # 0

(***************************************************************************)
(* Properties of the datasets                                              *)
(***************************************************************************)
\* the calls of get_features_with_mask made so far all ended without error,
\* returned a dict with 'x' and 'mask', and two made one after the other with
\* the same arguments returned the same mask
EveryCallReturnsTheMask ==
    /\ \A k \in 1 .. Len(ds_call.history) :
          /\ ds_call.history[k].raised = ""
          /\ {"x", "mask"} \subseteq ds_call.history[k].keys
    /\ ds_call.name = "get_features_with_mask" /\ Len(ds_call.history) >= 2
       => LET n == Len(ds_call.history)
          IN  (/\ ds_call.history[n - 1].flags = ds_call.history[n].flags
               /\ ds_call.history[n - 1].call + 1 = ds_call.history[n].call)
              => ds_call.history[n - 1].mask = ds_call.history[n].mask

\* C29: on a RealDataset and on a SumCategoricalDataset, every call of
\* get_features_with_mask, the first and every later one, ends without error
\* and returns a dataset with 'x' and with the same 'mask'.
FeaturesWithMaskRepeatable ==
    ds.kind \in {"RealDataset", "SumCategoricalDataset"} => EveryCallReturnsTheMask

\* the same for SumCategoricalDataset alone
FeaturesWithMaskRepeatableSum ==
    ds.kind = "SumCategoricalDataset" => EveryCallReturnsTheMask

\* the first call on a RealDataset returns 'x' and 'mask'
FeaturesWithMaskOnceReal ==
    (/\ ds.kind = "RealDataset"
     /\ ds_call.name = "get_features_with_mask"
     /\ Len(ds_call.history) = 1)
    => /\ ds_call.raised = ""
       /\ {"x", "mask"} \subseteq DOMAIN ds_call.result.items
       /\ "y" \notin DOMAIN ds_call.result.items
       /\ ds_call.count = 1
          => ds_call.result.items["mask"].data = label_column(ds.row_y_np, "bool").data

\* the second call on a RealDataset found no 'y' in the dict
SecondCallRaisesKeyError ==
    /\ ds.kind = "RealDataset"
    /\ ds_call.name = "get_features_with_mask"
    /\ Len(ds_call.history) = 2
    /\ ds_call.history[1].raised = ""
    /\ ds_call.raised = "KeyError"
====
